---- MODULE Spec2Model ----
(***************************************************************************)
(* Conversation memory store (SessionManager), question classifier and     *)
(* response splitter (LLMService) of the interview assistant.              *)
(*                                                                         *)
(* Strings are modelled by what the code does with them:                   *)
(*   - an event's content is a record [tag, len, pre, x2, ws]: the text    *)
(*     it was built from (tag), the number of characters of that text      *)
(*     that are present (len), how many of them are leading white space    *)
(*     (ws), whether the "Screenshot captured: " prefix is in front (pre)  *)
(*     and how many " (x2)" suffixes consolidation added (x2);             *)
(*   - a model response handed to the splitter is a sequence of tokens     *)
(*     (heading marks, labels, separators, words, spaces, newlines);       *)
(*   - a text handed to the classifier is the set of vocabulary phrases    *)
(*     that occur in it.                                                   *)
(***************************************************************************)
EXTENDS Integers, Sequences, FiniteSets, TLC

VARIABLES
    sessionMemory,          \* SessionManager.sessionMemory
    topicTags,              \* SessionManager.topicTags (Map topic -> entries)
    activeSkill,            \* SessionManager.activeSkill
    maxSize,                \* SessionManager.maxSize
    compressionThreshold,   \* SessionManager.compressionThreshold
    now,                    \* Date.now(), in milliseconds
    nextId,                 \* source of fresh event ids
    log,                    \* what the last handler reported to the logger
    screenText,             \* the screen text handed to detectQuestionType
    skillArg,               \* the activeSkill argument of the LLMService call
    classification,         \* what detectQuestionType returned
    response,               \* the text executeRequest returned
    parts,                  \* partA / partB of the structured result
    pc,                     \* position in the LLMService call
    client,                 \* LLMService.client
    isInitialized,          \* LLMService.isInitialized
    requestCount,           \* LLMService.requestCount
    errorCount,             \* LLMService.errorCount
    backend,                \* how each backend model answers its calls
    request,                \* the orchestration call in progress
    calls,                  \* backend calls issued for it, in order
    delays,                 \* the delay(ms) waits of its retry loop
    result,                 \* what the orchestration call returned
    sessionStartTime,       \* SessionManager.sessionStartTime
    sessionActive,          \* SessionManager.sessionActive
    sessionTimer,           \* SessionManager.sessionTimer (a timer id)
    timers,                 \* the setTimeout callbacks that are pending
    nextTimer,              \* source of fresh timer ids
    summary,                \* what the last endSession computed
    pending,                \* the controller's co-pilot request for a text
    whisperCalls,           \* transcription requests sent to the backend
    reply,                  \* what the last IPC handler gave its caller
    layers,                 \* the generateLayeredResponse call in progress
    controller,             \* the fields of the ApplicationController
    inflight,               \* the co-pilot requests that are under way
    capture                 \* CaptureService.isProcessing and its captures

memVars == <<sessionMemory, topicTags, activeSkill, maxSize,
             compressionThreshold, now, nextId, log>>

----------------------------------------------------------------------------
(* Configuration (src/src/core/config.js)                                  *)

maxDurationMinutes == 240
WindowMs == maxDurationMinutes * 60 * 1000

\* session.maxMemorySize and session.compressionThreshold are 1000 and 500 in
\* config.js; the model runs the same code on a scaled log.
CfgMaxMemorySize == 4
CfgCompressionThreshold == 3

AvailableModes == <<"system-design", "technical-screening", "dsa">>
Modes == {"system-design", "technical-screening", "dsa", "behavioral"}

\* Bounds of the exploration.
MaxEvents == 4          \* appends per run
MaxTicks == 3           \* clock steps per run
TickMs == WindowMs \div 2

----------------------------------------------------------------------------
(* Strings                                                                  *)

Min(a, b) == IF a <= b THEN a ELSE b
Max(a, b) == IF a >= b THEN a ELSE b

OcrPrefixLen == 21      \* "Screenshot captured: "
SuffixLen == 5          \* " (x2)"
EllipsisLen == 3        \* "..."

Str(tag, len) == [tag |-> tag, len |-> len, pre |-> FALSE, x2 |-> 0, ws |-> 0]

StrLen(c) == (IF c.pre THEN OcrPrefixLen ELSE 0) + c.len + SuffixLen * c.x2

\* String.prototype.substring(0, n). Suffixes are only ever added to short
\* system contents, so a cut never falls inside a suffix here.
Substring(c, n) ==
    IF StrLen(c) <= n THEN c
    ELSE [c EXCEPT !.len = Max(0, n - (IF c.pre THEN OcrPrefixLen ELSE 0)),
                   !.ws = Min(c.ws, Max(0, n - (IF c.pre THEN OcrPrefixLen ELSE 0))),
                   !.x2 = 0]

\* content.replace(/^Screenshot captured:\s*/i, ''): the prefix goes, and
\* with it the white space the text begins with (c.ws characters)
StripOcrPrefix(c) ==
    IF c.pre THEN [c EXCEPT !.pre = FALSE, !.len = c.len - c.ws, !.ws = 0]
    ELSE c

\* Values that are not strings: null, undefined, a number, an object. They
\* are told from strings by a negative len.
NonText(kind) == [Str(kind, 0) EXCEPT !.len = -1]
NonTextKinds == {"null", "undefined", "number", "object"}

\* typeof content === 'string'
IsString(c) == c.len >= 0

\* Reading a property of null or undefined raises a TypeError.
Nullish(c) == ~IsString(c) /\ c.tag \in {"null", "undefined"}

\* `${content} (x2)`
WithCountSuffix(c) == [c EXCEPT !.x2 = c.x2 + 1]

----------------------------------------------------------------------------
(* Texts the callers hand to the store. User and model texts are non-empty  *)
(* (speech.service.js:163, chat-window.js:331, executeRequest's empty      *)
(* check), screen text is non-empty (part_000:920) but may be white space.  *)

TextCache == Str("Use Redis as a cache, Redis scales", 34)
TextPlain == Str("Tell me more about that", 23)
TextAnswer == Str("Start with the requirements", 27)

TextLongCache == Str("A page of notes about a Redis cache", 260)

\* content.match(pattern) over the sixteen topicPatterns, in pattern order:
\* the matches of each text of the model, as they are written in it.
RawTopicMatches(c) ==
    IF c.tag = TextCache.tag /\ c.len = TextCache.len
    THEN <<"Redis", "Redis", "cache">>
    ELSE IF c.tag = TextLongCache.tag /\ c.len = TextLongCache.len
    THEN <<"Redis", "cache">>
    ELSE <<>>

\* match.toLowerCase().trim()
TopicKey(match) ==
    CASE match = "Redis" -> "redis"
      [] OTHER -> match

\* The topics a content is filed under, one per match.
TopicMatches(c) ==
    [i \in 1..Len(RawTopicMatches(c)) |-> TopicKey(RawTopicMatches(c)[i])]

----------------------------------------------------------------------------
(* SessionManager: events                                                   *)

NoAction == "null"

inferActionFromRole(role) ==
    CASE role = "user" -> "user_message"
      [] role = "model" -> "model_response"
      [] role = "system" -> "system_event"
      [] OTHER -> "unknown"

categorizeAction(action) ==
    CASE action \in {"voice_input", "chat_input"} -> "interaction"
      [] action \in {"model_response", "copilot_whisper"} -> "ai"
      [] action \in {"ocr_capture", "screenshot"} -> "capture"
      [] action \in {"skill_init", "skill_change", "session_start", "session_end"}
            -> "system"
      [] OTHER -> "general"

NewEvent(id, t, role, content, action, skill) ==
    [id |-> id,
     timestamp |-> t,
     role |-> role,
     content |-> content,
     action |-> IF action = NoAction THEN inferActionFromRole(role) ELSE action,
     category |-> categorizeAction(IF action = NoAction THEN role ELSE action),
     meta |-> [skill |-> skill, consolidated |-> FALSE]]

\* `Skill prompt loaded: ${skill}`
SkillPromptLoadedLen == <<34, 40, 24>>

SkillInitEvent(i, t) ==
    [id |-> i,
     timestamp |-> t,
     role |-> "system",
     content |-> Str(<<"Skill prompt loaded: ", AvailableModes[i]>>,
                     SkillPromptLoadedLen[i]),
     action |-> "skill_init",
     category |-> "system",
     meta |-> [skill |-> AvailableModes[i], consolidated |-> FALSE]]

\* One skill_init event per configured skill whose prompt loads.
initializeWithSkillPrompts(t) ==
    [i \in 1..Len(AvailableModes) |-> SkillInitEvent(i, t)]

----------------------------------------------------------------------------
(* SessionManager: eviction, topics, maintenance                            *)

IsSkillInit(e) == e.category = "system" /\ e.action = "skill_init"

CutoffTime(t) == t - maxDurationMinutes * 60 * 1000

KeepEvent(e, t) == IsSkillInit(e) \/ e.timestamp >= CutoffTime(t)

\* Mutant: every system event is exempt from eviction, not only skill_init.
evictKeepingAllSystemEvents(mem, t) ==
    SelectSeq(mem, LAMBDA e : e.category = "system" \/ e.timestamp >= CutoffTime(t))

\* evictExpiredEvents, the sessionMemory part
evictExpiredEvents(mem, t) == SelectSeq(mem, LAMBDA e : KeepEvent(e, t))

KeepOccurrence(o, t) == o.timestamp >= CutoffTime(t)

\* Mutant: a topic whose occurrences have all expired keeps its key.
evictExpiredTopicsKeepingKeys(tt, t) ==
    [k \in DOMAIN tt |-> SelectSeq(tt[k], LAMBDA o : KeepOccurrence(o, t))]

\* evictExpiredEvents, the topicTags part
evictExpiredTopics(tt, t) ==
    LET filtered(k) == SelectSeq(tt[k], LAMBDA o : KeepOccurrence(o, t))
    IN [k \in {x \in DOMAIN tt : filtered(x) # <<>>} |-> filtered(k)]

TagTopic(tt, topic, entry) ==
    IF topic \in DOMAIN tt
    THEN [tt EXCEPT ![topic] = Append(@, entry)]
    ELSE [k \in DOMAIN tt \cup {topic} |->
            IF k = topic THEN <<entry>> ELSE tt[k]]

RECURSIVE TagAll(_, _, _)
TagAll(tt, matches, entry) ==
    IF matches = <<>> THEN tt
    ELSE TagAll(TagTopic(tt, Head(matches), entry), Tail(matches), entry)

extractAndTagTopics(tt, content, t) ==
    IF ~IsString(content) \/ StrLen(content) = 0 THEN tt
    ELSE TagAll(tt, TopicMatches(content),
                [content |-> Substring(content, 200),
                 timestamp |-> t,
                 relevance |-> 1])

MergeEvents(current) ==
    [current EXCEPT !.content = WithCountSuffix(current.content),
                    !.meta = [current.meta EXCEPT !.consolidated = TRUE]]

\* Mutant: adjacent system events are merged whatever their actions.
RECURSIVE ConsolidateAnySystemFrom(_, _)
ConsolidateAnySystemFrom(mem, i) ==
    IF i > Len(mem) THEN <<>>
    ELSE IF /\ mem[i].category = "system"
            /\ i + 1 <= Len(mem)
            /\ mem[i + 1].category = "system"
         THEN <<MergeEvents(mem[i])>> \o ConsolidateAnySystemFrom(mem, i + 2)
         ELSE <<mem[i]>> \o ConsolidateAnySystemFrom(mem, i + 1)

consolidateAnySystemEvents(mem) == ConsolidateAnySystemFrom(mem, 1)

\* Mutant: after a merge the scan goes on from the second event of the pair.
RECURSIVE ConsolidateOverlappingFrom(_, _)
ConsolidateOverlappingFrom(mem, i) ==
    IF i > Len(mem) THEN <<>>
    ELSE IF /\ mem[i].category = "system"
            /\ i + 1 <= Len(mem)
            /\ mem[i + 1].category = "system"
            /\ mem[i + 1].action = mem[i].action
         THEN <<MergeEvents(mem[i])>> \o ConsolidateOverlappingFrom(mem, i + 1)
         ELSE <<mem[i]>> \o ConsolidateOverlappingFrom(mem, i + 1)

\* The while loop of consolidateSimilarEvents, from index i on
RECURSIVE ConsolidateFrom(_, _)
ConsolidateFrom(mem, i) ==
    IF i > Len(mem) THEN <<>>
    ELSE IF /\ mem[i].category = "system"
            /\ i + 1 <= Len(mem)
            /\ mem[i + 1].category = "system"
            /\ mem[i + 1].action = mem[i].action
         THEN <<MergeEvents(mem[i])>> \o ConsolidateFrom(mem, i + 2)
         ELSE <<mem[i]>> \o ConsolidateFrom(mem, i + 1)

consolidateSimilarEvents(mem) == ConsolidateFrom(mem, 1)

\* Mutant: slice(0, maxSize), which keeps the oldest events.
TruncateKeepingOldest(mem, size) ==
    IF Len(mem) > size THEN SubSeq(mem, 1, size) ELSE mem

\* this.sessionMemory.slice(excess)
Truncate(mem, size) ==
    IF Len(mem) > size THEN SubSeq(mem, Len(mem) - size + 1, Len(mem)) ELSE mem

\* performMaintenance: [mem, removed]
performMaintenance(mem, size, t) ==
    LET merged == consolidateSimilarEvents(evictExpiredEvents(mem, t))
    IN [mem |-> Truncate(merged, size),
        removed |-> Max(0, Len(merged) - size)]

performMaintenanceIfNeeded(mem, threshold, size, t) ==
    IF Len(mem) > threshold
    THEN performMaintenance(mem, size, t) @@ [maintained |-> TRUE]
    ELSE [mem |-> mem, removed |-> 0, maintained |-> FALSE]

----------------------------------------------------------------------------
(* SessionManager: the handlers                                             *)

Nothing == [id |-> 0]

\* op: the handler that ran; returned: what it returned; evicted, removed:
\* the counts of 'Evicted expired events' and 'Memory truncated';
\* maintained: whether performMaintenance ran.
Report(op, returned, evicted, maintained, removed) ==
    [op |-> op, returned |-> returned, evicted |-> evicted,
     maintained |-> maintained, removed |-> removed]

Appended == nextId - 1 - Len(AvailableModes)

\* addConversationEvent: push, tag topics, evict, maintain. The second
\* eviction inside performMaintenance runs at the same instant as the first.
\* Mutant: the event is put in front of the log.
Unshift(mem, event) == <<event>> \o mem

\* this.sessionMemory.push(event)
Push(mem, event) == Append(mem, event)

\* addConversationEvent as a function: the store and the report after the
\* event with the given id is appended to mem and tt
AppendTo(mem, tt, id, role, content, action, skill) ==
    LET event == NewEvent(id, now, role, content, action, skill)
        pushed == Push(mem, event)
        tagged == extractAndTagTopics(tt, content, now)
        kept == evictExpiredEvents(pushed, now)
        m == performMaintenanceIfNeeded(kept, compressionThreshold, maxSize, now)
    IN [mem |-> m.mem,
        tt |-> evictExpiredTopics(tagged, now),
        report |-> Report("append", event, Len(pushed) - Len(kept),
                          m.maintained, m.removed)]

addConversationEventTo(mem, tt, role, content, action, skill) ==
    LET event == NewEvent(nextId, now, role, content, action, skill)
        pushed == Push(mem, event)
        tagged == extractAndTagTopics(tt, content, now)
        kept == evictExpiredEvents(pushed, now)
        m == performMaintenanceIfNeeded(kept, compressionThreshold, maxSize, now)
    IN /\ sessionMemory' = m.mem
       /\ topicTags' = evictExpiredTopics(tagged, now)
       /\ nextId' = nextId + 1
       /\ log' = Report("append", event, Len(pushed) - Len(kept),
                        m.maintained, m.removed)
       /\ UNCHANGED <<maxSize, compressionThreshold, now>>

addConversationEvent(role, content, action, skill) ==
    addConversationEventTo(sessionMemory, topicTags, role, content, action, skill)

TypeError == [id |-> 0, error |-> "TypeError"]

\* The handler raised before it changed anything.
Raise(e) ==
    /\ log' = Report("raise", e, 0, FALSE, 0)
    /\ UNCHANGED <<sessionMemory, topicTags, activeSkill, maxSize,
                   compressionThreshold, now, nextId>>

\* text.length, extractedText.length: raises on null and undefined
ReadsLength(text) == Nullish(text)

\* metadata: { source, textLength: text.length }
addUserInput(text, source) ==
    IF ReadsLength(text) THEN Raise(TypeError)
    ELSE /\ addConversationEvent("user", text,
                IF source = "speech" THEN "voice_input" ELSE "chat_input",
                activeSkill)
         /\ UNCHANGED activeSkill

\* metadata: { responseLength: text.length, ...metadata }
addModelResponse(text) ==
    IF ReadsLength(text) THEN Raise(TypeError)
    ELSE /\ addConversationEvent("model", text, "model_response", activeSkill)
         /\ UNCHANGED activeSkill

\* extractedText.length > 4000 ? extractedText.substring(0, 4000) + '...'
SafeText(text) ==
    IF text.len > 4000
    THEN [text EXCEPT !.len = 4000 + EllipsisLen]
    ELSE text

\* String(value) of a number or an object, as the template literal takes it:
\* "5", "[object Object]"
Stringified(v) == Str(v.tag, IF v.tag = "number" THEN 1 ELSE 15)

\* A number or an object has no length: it is not cut and goes into the
\* template as its String().
addOCREvent(extractedText) ==
    IF ReadsLength(extractedText) THEN Raise(TypeError)
    ELSE /\ addConversationEvent("system",
                [SafeText(IF IsString(extractedText) THEN extractedText
                          ELSE Stringified(extractedText)) EXCEPT !.pre = TRUE],
                "ocr_capture", activeSkill)
         /\ UNCHANGED activeSkill

\* addEvent(action) with no details.content: the content is the action
addEvent(action) ==
    /\ addConversationEvent("system", Str(action, 19), action, activeSkill)
    /\ UNCHANGED activeSkill

\* addEvent(action) with an action that is not a string: content and action
\* are the value itself, or the inferred action when it is null or undefined
addEventNonText(action) ==
    /\ addConversationEvent("system", action,
           IF Nullish(action) THEN NoAction ELSE action.tag, activeSkill)
    /\ UNCHANGED activeSkill

setActiveSkill(skill) ==
    /\ activeSkill' = skill
    /\ addConversationEvent("system",
           Str(<<"Interview mode switched from ", activeSkill, skill>>, 60),
           "skill_change", skill)

\* getOptimizedHistory starts with evictExpiredEvents()
\* Array.prototype.slice(-n) for n >= 1
SliceLast(seq, n) ==
    IF Len(seq) <= n THEN seq ELSE SubSeq(seq, Len(seq) - n + 1, Len(seq))

\* The filter of `recent`
IsRecentKind(e) ==
    \/ e.role = "user"
    \/ e.role = "model"
    \/ (e.role = "system" /\ e.action = "ocr_capture")

\* The filter of `important`
IsImportantKind(e) ==
    \/ e.category = "interaction"
    \/ e.category = "ai"
    \/ (e.category = "system" /\ e.action = "ocr_capture")

\* What getOptimizedHistory returns (the timer, which is
\* getSessionTimer(), is left out); limit is the argument it was given.
History(mem, tt, limit) ==
    [id |-> 0,
     limit |-> limit,
     recent |-> SliceLast(SelectSeq(mem, IsRecentKind), limit),
     important |-> SliceLast(SelectSeq(mem, IsImportantKind), 5),
     topics |-> DOMAIN tt,
     eventCount |-> Len(mem)]

\* getOptimizedHistory(limit) when this.sessionMemory is mem
getOptimizedHistoryOf(mem, limit) ==
    /\ sessionMemory' = evictExpiredEvents(mem, now)
    /\ topicTags' = evictExpiredTopics(topicTags, now)
    /\ log' = Report("history",
                     History(evictExpiredEvents(mem, now),
                             evictExpiredTopics(topicTags, now), limit),
                     Len(mem) - Len(evictExpiredEvents(mem, now)),
                     FALSE, 0)
    /\ UNCHANGED <<activeSkill, maxSize, compressionThreshold, now, nextId>>

getOptimizedHistoryWith(limit) == getOptimizedHistoryOf(sessionMemory, limit)

\* getOptimizedHistory(limit = 15)
DefaultLimit == 15

getOptimizedHistory == getOptimizedHistoryWith(DefaultLimit)

\* The clock moves between handlers.
Tick ==
    /\ now + TickMs <= MaxTicks * TickMs
    /\ now' = now + TickMs
    /\ log' = Report("tick", Nothing, 0, FALSE, 0)
    /\ UNCHANGED <<sessionMemory, topicTags, activeSkill, maxSize,
                   compressionThreshold, nextId>>

----------------------------------------------------------------------------
(* SessionManager.getFollowUpContext                                        *)

TextLongQuestion == Str("a long spoken question", 1600)
TextLongScreen == Str("a full page of screen text", 4100)
TextLongAnswer == Str("a long model answer", 2100)

\* What the vision model extracts from a screen it reads nothing from: a
\* line break. It is truthy, so the capture is stored.
TextBlankScreen == [Str("\n", 1) EXCEPT !.ws = 1]

NoQuestion == [tag |-> "null", len |-> 0, pre |-> FALSE, x2 |-> 0, ws |-> 0]

\* `&& currentQuestion`: null and '' are falsy
Truthy(q) == q.tag # NoQuestion.tag /\ StrLen(q) > 0

IsRelevant(e) ==
    \/ e.role = "system" /\ e.action = "ocr_capture"
    \/ e.role = "user"
    \/ e.role = "model"

\* The pair-building loop: pairs, currentQuestion and questionSource after
\* the events from index i on.
RECURSIVE BuildPairs(_, _, _, _, _)
BuildPairs(events, i, pairs, currentQuestion, questionSource) ==
    IF i > Len(events) THEN pairs
    ELSE LET event == events[i]
         IN IF event.action = "ocr_capture"
            THEN BuildPairs(events, i + 1, pairs,
                            StripOcrPrefix(event.content), "screen")
            ELSE IF event.role = "user"
            THEN BuildPairs(events, i + 1, pairs, event.content, "voice/chat")
            ELSE IF event.role = "model" /\ Truthy(currentQuestion)
            THEN BuildPairs(events, i + 1,
                            Append(pairs, [question |-> currentQuestion,
                                           answer |-> event.content,
                                           source |-> questionSource]),
                            NoQuestion, "null")
            ELSE BuildPairs(events, i + 1, pairs, currentQuestion,
                            questionSource)

FollowUpPairs(mem) ==
    BuildPairs(SelectSeq(mem, IsRelevant), 1, <<>>, NoQuestion, "null")

QuestionCap == 1500
AnswerCap == 2000

RenderTurn(pair, i) ==
    [piece |-> "turn",
     turn |-> i,
     label |-> IF pair.source = "screen" THEN "SCREEN CONTENT"
               ELSE "USER MESSAGE",
     question |-> Substring(pair.question, QuestionCap),
     answer |-> Substring(pair.answer, AnswerCap)]

EmptyString == <<>>

\* The returned string, as its pieces: header, one piece per turn, footer.
getFollowUpContextText(mem, maxPairs) ==
    LET pairs == FollowUpPairs(mem)
        recentPairs == SliceLast(pairs, maxPairs)
    IN IF pairs = <<>> THEN EmptyString
       ELSE <<[piece |-> "=== PREVIOUS CONVERSATION CONTEXT ==="]>>
            \o [i \in 1..Len(recentPairs) |-> RenderTurn(recentPairs[i], i)]
            \o <<[piece |-> "=== END PREVIOUS CONTEXT ==="]>>

defaultMaxPairs == 3

getFollowUpContext(maxPairs) ==
    /\ log' = Report("followUp",
                     getFollowUpContextText(sessionMemory, maxPairs),
                     0, FALSE, 0) @@ [maxPairs |-> maxPairs]
    /\ UNCHANGED <<sessionMemory, topicTags, activeSkill, maxSize,
                   compressionThreshold, now, nextId>>

----------------------------------------------------------------------------
(* LLMService.detectQuestionType                                            *)

\* A text is the set of phrases that occur in it; the empty set is ''.
Vocabulary ==
    {"function ", "Array", "string", "O(n)", "dfs",
     "design", "Kafka", "latency", "server",
     "user input", "hello"}

\* extractedText.toLowerCase()
ToLowerCase(phrase) ==
    CASE phrase = "Array" -> "array"
      [] phrase = "O(n)" -> "o(n)"
      [] phrase = "Kafka" -> "kafka"
      [] OTHER -> phrase

\* For each of the seven codingPatterns, the (lower-case) phrases of the
\* vocabulary it matches.
codingPatterns ==
    <<{"function "},            \* \b(def |function |class |...)
      {"user input"},           \* \b(input|output|example|...)
      {"array", "string"},      \* \b(array|string|linked list|...)\b
      {"o(n)"},                 \* \b(time complexity|...|o\(n\)|...)
      {"dfs"},                  \* \b(two pointer|...|bfs|dfs|greedy)
      {},                       \* =>|\{\}|\[\]|==|...
      {}>>                      \* ```|\bint\b.*\(|\bvoid\b.*\(

\* The same for the seven designPatterns.
designPatterns ==
    <<{"design"},               \* \b(design|architect|system|...)
      {"kafka"},                \* \b(load balanc|...|kafka)
      {},                       \* \b(availability|consistency|...)
      {"latency", "server", "user input"},  \* \b(user|request|server|...)
      {},                       \* \b(storage|bandwidth|...)
      {},                       \* \b(rest|graphql|...)
      {}>>                      \* \b(redis|memcached|...)

\* pattern.test(text)
Test(pattern, text) == \E phrase \in text : ToLowerCase(phrase) \in pattern

Score(patterns, text) ==
    Cardinality({i \in 1..Len(patterns) : Test(patterns[i], text)})

\* Mutant: a tie goes to coding.
detectQuestionTypeTieToCoding(text, skill) ==
    IF text = {}
    THEN [type |-> IF skill = "system-design" THEN "design" ELSE "coding",
          patternsRun |-> 0]
    ELSE LET codingScore ==
                 Score(codingPatterns, text)
                 + (IF skill \in {"dsa", "technical-screening"} THEN 2 ELSE 0)
             designScore ==
                 Score(designPatterns, text)
                 + (IF skill = "system-design" THEN 2 ELSE 0)
         IN [type |-> IF codingScore >= designScore THEN "coding" ELSE "design",
             patternsRun |-> Len(codingPatterns) + Len(designPatterns)]

\* Mutant: no short-circuit on an empty text.
detectQuestionTypeAlwaysScoring(text, skill) ==
    LET codingScore ==
            Score(codingPatterns, text)
            + (IF skill \in {"dsa", "technical-screening"} THEN 2 ELSE 0)
        designScore ==
            Score(designPatterns, text)
            + (IF skill = "system-design" THEN 2 ELSE 0)
    IN [type |-> IF codingScore > designScore THEN "coding" ELSE "design",
        patternsRun |-> Len(codingPatterns) + Len(designPatterns)]

\* detectQuestionType: the detected type and the number of patterns tested
detectQuestionType(text, skill) ==
    IF text = {}
    THEN [type |-> IF skill = "system-design" THEN "design" ELSE "coding",
          patternsRun |-> 0]
    ELSE LET codingScore ==
                 Score(codingPatterns, text)
                 + (IF skill \in {"dsa", "technical-screening"} THEN 2 ELSE 0)
             designScore ==
                 Score(designPatterns, text)
                 + (IF skill = "system-design" THEN 2 ELSE 0)
         IN [type |-> IF codingScore > designScore THEN "coding" ELSE "design",
             patternsRun |-> Len(codingPatterns) + Len(designPatterns)]

NotClassified == [type |-> "none", patternsRun |-> 0]

Classify ==
    /\ pc = "extracted"
    /\ classification' = detectQuestionType(screenText, skillArg)
    /\ pc' = "classified"
    /\ UNCHANGED <<screenText, skillArg, response, parts>>

----------------------------------------------------------------------------
(* The Part A / Part B split of processScreenCaptureWithStructuredResponse  *)

\* A response is a sequence of tokens: the characters that the two regular
\* expressions tell apart, the labels, and words.
Hash == "#"
Star == "*"
Whitespace == "\\s"
Separator == "[\\s\\-:]"         \* with the em dash, written "-" here
LineBreak == "[\\r\\n]"
NotLineBreak == "[^\\r\\n]"
PartA == "Part\\s*A"
PartB == "Part\\s*B"

\* Whether one token matches a piece of the (case-insensitive) patterns
Matches(class, tok) ==
    CASE class = Hash -> tok = "#"
      [] class = Star -> tok = "*"
      [] class = Whitespace -> tok \in {" ", "\n"}
      [] class = Separator -> tok \in {" ", "\n", "-", ":"}
      [] class = LineBreak -> tok = "\n"
      [] class = NotLineBreak -> tok # "\n"
      [] class = PartA -> tok \in {"Part A", "part a"}
      [] class = PartB -> tok \in {"Part B", "part b"}

\* Where the longest run of tokens of a class that starts at i ends (the
\* first position after it).
RunEnd(text, i, class) ==
    CHOOSE j \in i..(Len(text) + 1) :
        /\ \A k \in i..(j - 1) : Matches(class, text[k])
        /\ j = Len(text) + 1 \/ ~Matches(class, text[j])

\* (?:^|\n): the positions a match can begin its heading at, in order
LineStarts(text) ==
    {1} \cup {i + 1 : i \in {k \in 1..Len(text) : Matches(LineBreak, text[k])}}

\* #{..3} from p to afterHash, \s* to afterSpace, \*{..2} to afterStar, then
\* the label: the position after the label, 0 when there is no match
LabelAfter(text, p, afterHash, afterSpace, afterStar, label) ==
    IF /\ afterHash - p <= 3
       /\ afterStar - afterSpace <= 2
       /\ afterStar <= Len(text)
       /\ Matches(label, text[afterStar])
    THEN afterStar + 1
    ELSE 0

LabelAfterSpace(text, p, afterHash, afterSpace, label) ==
    LabelAfter(text, p, afterHash, afterSpace,
               RunEnd(text, afterSpace, Star), label)

\* (?:#{1,3}\s*)?(?:\*{1,2})?Part\s*X at p: whitespace only after a hash
LabelAfterHash(text, p, afterHash, label) ==
    LabelAfterSpace(text, p, afterHash,
                    IF afterHash = p THEN p
                    ELSE RunEnd(text, afterHash, Whitespace),
                    label)

LabelEnd(text, p, label) ==
    LabelAfterHash(text, p, RunEnd(text, p, Hash), label)

\* [^\r\n]*[\r\n]+ at k: the position after the line breaks
SkipTitle(text, k) ==
    IF k = 0 THEN 0
    ELSE RunEnd(text, RunEnd(text, k, NotLineBreak), LineBreak)

\* The separator class is greedy and gives back only as much as the line
\* break after the title needs: the last position of from..to from which
\* the rest of the line ends at a line break, 0 when there is none.
GiveBack(text, from, to) ==
    LET ok == {k \in from..to : RunEnd(text, k, NotLineBreak) <= Len(text)}
    IN IF ok = {} THEN 0 ELSE CHOOSE x \in ok : \A y \in ok : y <= x

SkipSeparator(text, afterStar) ==
    SkipTitle(text, GiveBack(text, afterStar, RunEnd(text, afterStar, Separator)))

\* (?:\*{1,2})?[\s—\-:]*[^\r\n]*[\r\n]+ at a: the position where the capture
\* group begins, 0 when there is no match
CaptureStart(text, a) ==
    IF a = 0 THEN 0
    ELSE SkipSeparator(text, Min(RunEnd(text, a, Star), a + 2))

MatchAt(text, p, label) == CaptureStart(text, LabelEnd(text, p, label))

\* The capture start of the first (leftmost) match, 0 when there is none
FirstMatch(text, label) ==
    LET matching == {p \in LineStarts(text) : MatchAt(text, p, label) # 0}
    IN IF matching = {} THEN 0
       ELSE MatchAt(text, CHOOSE x \in matching : \A y \in matching : x <= y,
                    label)

LookaheadAfterSpace(text, r, afterHash, afterSpace) ==
    LabelAfter(text, r, afterHash, afterSpace,
               RunEnd(text, afterSpace, Star), PartB) # 0

LookaheadAfterHash(text, r, afterHash) ==
    LookaheadAfterSpace(text, r, afterHash, RunEnd(text, afterHash, Whitespace))

\* (?=(?:#{0,3}\s*)?(?:\*{1,2})?Part\s*B|$) at r
LookaheadPartB(text, r) ==
    \/ r = Len(text) + 1
    \/ LookaheadAfterHash(text, r, RunEnd(text, r, Hash))

NoMatch == [matched |-> FALSE, group |-> <<>>]

\* ([\s\S]*?)(?=...): the lazy group ends at the first position where the
\* lookahead holds
LazyEnd(text, q) ==
    CHOOSE x \in q..(Len(text) + 1) :
        /\ LookaheadPartB(text, x)
        /\ \A y \in q..(x - 1) : ~LookaheadPartB(text, y)

GroupA(text, q) ==
    IF q = 0 THEN NoMatch
    ELSE [matched |-> TRUE, group |-> SubSeq(text, q, LazyEnd(text, q) - 1)]

\* response.match(partARegex)
partARegex(text) == GroupA(text, FirstMatch(text, PartA))

\* ([\s\S]*?)$: the group runs to the end of the text
GroupB(text, q) ==
    IF q = 0 THEN NoMatch
    ELSE [matched |-> TRUE, group |-> SubSeq(text, q, Len(text))]

\* response.match(partBRegex)
partBRegex(text) == GroupB(text, FirstMatch(text, PartB))

\* String.prototype.trim
trim(text) ==
    LET inner == {i \in 1..Len(text) : ~Matches(Whitespace, text[i])}
    IN IF inner = {} THEN <<>>
       ELSE SubSeq(text,
                   CHOOSE x \in inner : \A y \in inner : x <= y,
                   CHOOSE x \in inner : \A y \in inner : y <= x)

\* if (partXMatch) partX = partXMatch[1].trim()
PartText(match) == IF match.matched THEN trim(match.group) ELSE <<>>

\* Mutant: the fallback puts the whole response into Part A.
FallbackToPartA(text, partA, partB) ==
    IF partA = <<>> /\ partB = <<>>
    THEN [partA |-> text, partB |-> <<>>]
    ELSE [partA |-> partA, partB |-> partB]

\* if (!partA && !partB) { partA = ''; partB = response; }
Fallback(text, partA, partB) ==
    IF partA = <<>> /\ partB = <<>>
    THEN [partA |-> <<>>, partB |-> text]
    ELSE [partA |-> partA, partB |-> partB]

\* Step 5 of processScreenCaptureWithStructuredResponse
SplitParts(text) ==
    Fallback(text, PartText(partARegex(text)), PartText(partBRegex(text)))

Split ==
    /\ pc = "responded"
    /\ parts' = SplitParts(response)
    /\ pc' = "split"
    /\ UNCHANGED <<screenText, skillArg, classification, response>>

(* LLMService: client, orchestration entry points, backend chains          *)

svcVars == <<client, isInitialized, requestCount, errorCount, backend,
             request, calls, delays, result>>

maxRetries == 3

\* The candidates of the vision extraction, in order of preference
visionModels ==
    <<"meta-llama/llama-4-scout-17b-16e-instruct",
      "llama-3.2-11b-vision-preview",
      "llama-3.2-90b-vision-preview">>

\* this.model, the model of executeRequest
model == "llama-3.3-70b-versatile"

Models == {visionModels[i] : i \in 1..Len(visionModels)} \cup {model}

\* What a backend model does with the calls of one orchestration call: the
\* outcome of its k-th call is a text, an empty payload or an error.
Scripts ==
    {"ok", "failOnce", "failTwice", "alwaysFail", "emptyOnce", "alwaysEmpty"}

Outcome(script, k) ==
    CASE script = "ok" -> "text"
      [] script = "failOnce" -> IF k = 1 THEN "error" ELSE "text"
      [] script = "failTwice" -> IF k <= 2 THEN "error" ELSE "text"
      [] script = "alwaysFail" -> "error"
      [] script = "emptyOnce" -> IF k = 1 THEN "empty" ELSE "text"
      [] script = "alwaysEmpty" -> "empty"

CallsTo(m) == Len(SelectSeq(calls, LAMBDA c : c.model = m))

\* this.client.chat.completions.create({model: m, ...})
Create(m) == [model |-> m, outcome |-> Outcome(backend[m], CallsTo(m) + 1)]

NoRequest ==
    [kind |-> "none", skill |-> "dsa", at |-> "idle", attempt |-> 0,
     modelIdx |-> 0, extractedText |-> "none", n |-> 0, startTime |-> 0]

NoResult ==
    [usedFallback |-> FALSE, model |-> "none", visionModel |-> "none",
     response |-> "none", extractedText |-> "none"]

\* constructor, before initializeClient
IdleService ==
    /\ client = "null"
    /\ isInitialized = FALSE
    /\ requestCount = 0
    /\ errorCount = 0
    /\ backend = [m \in Models |-> "ok"]
    /\ request = NoRequest
    /\ calls = <<>>
    /\ delays = <<>>
    /\ result = NoResult

\* initializeClient: without a key the service is marked uninitialized and
\* the client is left as it was; so it is when new Groq() throws.
initializeClient(apiKey, constructorThrows, oldClient) ==
    IF apiKey = "" \/ constructorThrows
    THEN [client |-> oldClient, isInitialized |-> FALSE]
    ELSE [client |-> "groq", isInitialized |-> TRUE]

updateApiKey(newApiKey, constructorThrows) ==
    /\ client' = initializeClient(newApiKey, constructorThrows, client).client
    /\ isInitialized' =
           initializeClient(newApiKey, constructorThrows, client).isInitialized
    /\ UNCHANGED <<requestCount, errorCount, backend, request, calls, delays,
                   result>>

generateFallbackResponse(text, skill) ==
    [usedFallback |-> TRUE, model |-> "fallback", visionModel |-> "none",
     response |-> <<"canned", IF skill \in {"system-design", "technical-screening"}
                              THEN skill ELSE "dsa">>,
     extractedText |-> text]

\* Mutant: the entry points look at the client object, which a removed key
\* leaves in place.
NotInitializedByClient == client = "null"

\* if (!this.isInitialized)
NotInitialized == ~isInitialized

\* The four entry points start alike: without an initialized client they
\* return the canned response at once.
EnterCall(kind, text, skill) ==
    /\ request.at \in {"idle", "done"}
    /\ calls' = <<>>
    /\ delays' = <<>>
    /\ IF NotInitialized
       THEN /\ result' = generateFallbackResponse(text, skill)
            /\ request' = [NoRequest EXCEPT !.kind = kind, !.skill = skill,
                                            !.at = "done", !.n = request.n + 1,
                                            !.startTime = now]
       ELSE /\ result' = NoResult
            /\ request' = [NoRequest EXCEPT
                              !.kind = kind, !.skill = skill,
                              !.at = CASE kind = "screen" -> "vision"
                                       [] kind = "image" -> "image"
                                       [] OTHER -> "request",
                              !.attempt = 1, !.modelIdx = 1,
                              !.extractedText = text,
                              !.n = request.n + 1,
                              !.startTime = now]
    /\ UNCHANGED <<client, isInitialized, requestCount, errorCount, backend>>

processTextWithSkill(text, skill) == EnterCall("text", text, skill)

processTranscriptionWithIntelligentResponse(text, skill) ==
    EnterCall("transcription", text, skill)

processImageWithSkill(skill) ==
    EnterCall("image", "Image analysis requested", skill)

processScreenCaptureWithStructuredResponse(skill) ==
    EnterCall("screen", "Image analysis requested", skill)

\* Mutant: the catch block returns the canned response without counting the
\* error.
CatchWithoutCounting ==
    /\ errorCount' = errorCount
    /\ result' = generateFallbackResponse(
                     IF request.kind \in {"screen", "image"}
                     THEN "Image analysis failed" ELSE request.extractedText,
                     request.skill)
    /\ request' = [request EXCEPT !.at = "done"]
    /\ UNCHANGED requestCount

\* catch (error) { this.errorCount++; return this.generateFallbackResponse(..) }
Catch ==
    /\ errorCount' = errorCount + 1
    /\ result' = generateFallbackResponse(
                     IF request.kind \in {"screen", "image"}
                     THEN "Image analysis failed" ELSE request.extractedText,
                     request.skill)
    /\ request' = [request EXCEPT !.at = "done"]
    /\ UNCHANGED requestCount

\* this.requestCount++; return { response, ..., usedFallback: false }
Return(usedModel, text) ==
    /\ requestCount' = requestCount + 1
    /\ result' = [usedFallback |-> FALSE, model |-> usedModel,
                  visionModel |-> IF request.kind \in {"screen", "image"}
                                  THEN visionModels[request.modelIdx]
                                  ELSE "none",
                  response |-> text,
                  extractedText |-> IF request.kind = "screen"
                                    THEN request.extractedText ELSE "none"]
    /\ request' = [request EXCEPT !.at = "done"]
    /\ UNCHANGED errorCount

\* The vision call did not throw: an empty payload becomes ''.
VisionSucceeded(c) == c.outcome # "error"

\* Mutant: a failed vision model is retried maxRetries times before the next
\* candidate.
AfterVisionFailureRetrying(req) ==
    IF req.attempt < maxRetries
    THEN [req EXCEPT !.attempt = req.attempt + 1]
    ELSE [req EXCEPT !.modelIdx = req.modelIdx + 1, !.attempt = 1]

\* After a failed vision model: the next candidate, each tried once.
AfterVisionFailure(req) ==
    [req EXCEPT !.modelIdx = req.modelIdx + 1]

\* One iteration of `for (const modelName of visionModels)`
VisionCall ==
    /\ request.at = "vision"
    /\ LET c == Create(visionModels[request.modelIdx])
           next == AfterVisionFailure(request)
       IN /\ calls' = Append(calls, c)
          /\ IF VisionSucceeded(c)
             THEN /\ request' = [request EXCEPT
                                    !.at = "request", !.attempt = 1,
                                    !.extractedText =
                                        IF c.outcome = "text"
                                        THEN "extracted" ELSE ""]
                  /\ UNCHANGED <<requestCount, errorCount, result>>
             ELSE IF next.modelIdx <= Len(visionModels)
             THEN /\ request' = next
                  /\ UNCHANGED <<requestCount, errorCount, result>>
             ELSE Catch
    /\ UNCHANGED <<client, isInitialized, backend, delays>>

\* processImageWithSkill: one call of the second vision model, no retry
ImageCall ==
    /\ request.at = "image"
    /\ LET c == Create(visionModels[2])
       IN /\ calls' = Append(calls, c)
          /\ IF c.outcome = "error"
             THEN Catch
             ELSE /\ requestCount' = requestCount + 1
                  /\ result' = [NoResult EXCEPT
                                   !.model = visionModels[2],
                                   !.visionModel = visionModels[2],
                                   !.response = IF c.outcome = "text" THEN "text"
                                                ELSE "No response generated."]
                  /\ request' = [request EXCEPT !.at = "done", !.modelIdx = 2]
                  /\ UNCHANGED errorCount
    /\ UNCHANGED <<client, isInitialized, backend, delays>>

\* if (!text) throw new Error('Empty response from Groq')
AttemptSucceeded(c) == c.outcome = "text"

\* Mutant: the loop waits after every failed attempt, the last one included.
BackoffAfterEveryFailure(attempt) == attempt <= maxRetries

\* if (attempt < maxRetries) await this.delay(1000 * attempt)
BackoffDue(attempt) == attempt < maxRetries

\* attempt++ and the loop test; the loop's exit throws lastError
NextAttempt ==
    IF request.attempt + 1 <= maxRetries
    THEN /\ request' = [request EXCEPT !.at = "request",
                                       !.attempt = request.attempt + 1]
         /\ UNCHANGED <<requestCount, errorCount, result>>
    ELSE Catch

\* One iteration of the retry loop of executeRequest
Attempt ==
    /\ request.at = "request"
    /\ IF client = "null"
       THEN Catch /\ UNCHANGED <<calls, delays>>
       ELSE LET c == Create(model)
            IN /\ calls' = Append(calls, c)
               /\ IF AttemptSucceeded(c)
                  THEN Return(model, "text") /\ UNCHANGED delays
                  ELSE IF BackoffDue(request.attempt)
                  THEN /\ delays' = Append(delays, 1000 * request.attempt)
                       /\ request' = [request EXCEPT !.at = "delay"]
                       /\ UNCHANGED <<requestCount, errorCount, result>>
                  ELSE NextAttempt /\ UNCHANGED delays
    /\ UNCHANGED <<client, isInitialized, backend>>

\* The delay of the retry loop is over.
Backoff ==
    /\ request.at = "delay"
    /\ NextAttempt
    /\ UNCHANGED <<client, isInitialized, backend, calls, delays>>

llmVars == <<screenText, skillArg, classification, response, parts, pc>>

sesVars == <<sessionStartTime, sessionActive, sessionTimer, timers, nextTimer,
             summary>>

appVars == <<controller, inflight, capture>>

ctlVars == <<pending, whisperCalls, reply, layers, appVars>>

vars == <<memVars, llmVars, svcVars, sesVars, ctlVars>>

EmptyTopics == [k \in {} |-> <<>>]

NoParts == [partA |-> <<>>, partB |-> <<>>]

----------------------------------------------------------------------------
(* SessionManager: session lifecycle and recall                             *)

\* sessionStartTime = null, sessionTimer = null. The instant 0 of the model
\* is the launch of the application, a positive Date.now().
NoTime == -1
NoTimer == 0

NoSummary ==
    [durationMinutes |-> -1, mode |-> "none", totalEvents |-> 0,
     userMessages |-> 0, aiResponses |-> 0, topicCount |-> 0,
     endedBy |-> "none"]

\* The constructor's session fields.
IdleSession ==
    /\ sessionStartTime = NoTime
    /\ sessionActive = FALSE
    /\ sessionTimer = NoTimer
    /\ timers = {}
    /\ nextTimer = 1
    /\ summary = NoSummary

\* Math.round(ms / 60000), ms >= 0
RoundMinutes(ms) == (ms + 30000) \div 60000

getElapsedMinutes(start, t) ==
    IF start = NoTime THEN 0 ELSE RoundMinutes(t - start)

CountRole(mem, role) == Len(SelectSeq(mem, LAMBDA e : e.role = role))

\* endedBy is not a field of the summary: it names the caller of endSession.
generateSessionSummary(endedBy) ==
    [durationMinutes |-> getElapsedMinutes(sessionStartTime, now),
     mode |-> activeSkill,
     totalEvents |-> Len(sessionMemory),
     userMessages |-> CountRole(sessionMemory, "user"),
     aiResponses |-> CountRole(sessionMemory, "model"),
     topicCount |-> Cardinality(DOMAIN topicTags),
     endedBy |-> endedBy]

\* `Interview session started. Mode: ${skill}. Duration: 240 minutes.`
SessionStartedText(skill) ==
    Str(<<"Interview session started. Mode: ", skill>>, 58 + Len(skill))

\* The new timer is set without clearing the one of an earlier start.
\* Mutant: the session starts on top of the memory and the topics it finds.
startSessionKeepingMemory(mode) ==
    /\ activeSkill' = mode
    /\ sessionStartTime' = now
    /\ sessionActive' = TRUE
    /\ timers' = timers \cup {[id |-> nextTimer, due |-> now + WindowMs]}
    /\ sessionTimer' = nextTimer
    /\ nextTimer' = nextTimer + 1
    /\ addConversationEventTo(sessionMemory, topicTags, "system",
                              SessionStartedText(mode), "session_start", mode)
    /\ UNCHANGED summary

startSession(mode) ==
    /\ activeSkill' = mode
    /\ sessionStartTime' = now
    /\ sessionActive' = TRUE
    /\ timers' = timers \cup {[id |-> nextTimer, due |-> now + WindowMs]}
    /\ sessionTimer' = nextTimer
    /\ nextTimer' = nextTimer + 1
    /\ addConversationEventTo(<<>>, EmptyTopics, "system",
                              SessionStartedText(mode), "session_start", mode)
    /\ UNCHANGED summary

\* endSession, run by endedBy while the timers in pendingTimers are pending
EndSession(endedBy, pendingTimers) ==
    /\ timers' = {tm \in pendingTimers : tm.id # sessionTimer}
    /\ sessionTimer' = NoTimer
    /\ summary' = generateSessionSummary(endedBy)
    /\ sessionActive' = FALSE
    /\ log' = Report("endSession", Nothing, 0, FALSE, 0)
    /\ UNCHANGED <<sessionStartTime, nextTimer, sessionMemory, topicTags,
                   activeSkill, maxSize, compressionThreshold, now, nextId>>

endSession == EndSession("caller", timers)

\* clear: the memory is emptied and the skill prompts are loaded again
clear ==
    /\ sessionMemory' = initializeWithSkillPrompts(now)
    /\ topicTags' = EmptyTopics
    /\ sessionStartTime' = NoTime
    /\ sessionActive' = FALSE
    /\ timers' = {tm \in timers : tm.id # sessionTimer}
    /\ sessionTimer' = NoTimer
    /\ log' = Report("clear", Nothing, 0, FALSE, 0)
    /\ UNCHANGED <<nextTimer, summary, activeSkill, maxSize,
                   compressionThreshold, now, nextId>>

\* The callback of a setTimeout of startSession runs: this.endSession()
TimerFires ==
    \E tm \in timers :
        /\ tm.due <= now
        /\ EndSession("timer", timers \ {tm})

\* The clock moves on when no timer is due.
SessionTick ==
    /\ \A tm \in timers : tm.due > now
    /\ Tick
    /\ UNCHANGED sesVars

\* String.prototype.toLowerCase() over the queries and contents of the
\* model; every other text of the model holds neither "redis" nor "cache"
\* in either case, and is left as it is.
LowerCase(text) ==
    CASE text = "Redis" -> "redis"
      [] text = "CACHE" -> "cache"
      [] text = "Redis Cache" -> "redis cache"
      [] text = "Use Redis as a cache, Redis scales"
            -> "use redis as a cache, redis scales"
      [] text = "A page of notes about a Redis cache"
            -> "a page of notes about a redis cache"
      [] OTHER -> text

\* The pairs <<text, part>> of lower-case texts of the model in which part
\* is a proper substring of text.
ProperSubstrings ==
    {<<"redis cache", "redis">>, <<"redis cache", "cache">>,
     <<"use redis as a cache, redis scales", "redis">>,
     <<"use redis as a cache, redis scales", "cache">>,
     <<"a page of notes about a redis cache", "redis">>,
     <<"a page of notes about a redis cache", "cache">>,
     <<"a page of notes about a redis cache", "redis cache">>}

\* String.prototype.includes
Includes(text, part) == text = part \/ <<text, part>> \in ProperSubstrings

\* queryLower.includes(topic) || topic.includes(queryLower)
TopicIncludes(queryLower, topic) ==
    Includes(queryLower, topic) \/ Includes(topic, queryLower)

\* event.content && typeof event.content === 'string' &&
\* event.content.toLowerCase().includes(queryLower)
ContentIncludes(content, queryLower) ==
    /\ IsString(content)
    /\ StrLen(content) > 0
    /\ Includes(LowerCase(content.tag), queryLower)

\* The keys of the topic Map in insertion order. Every text of the model
\* that is filed under a topic is filed under "redis" and then under
\* "cache", with one timestamp, so the two keys enter and leave the Map
\* together, "redis" first.
TopicOrder(tt) == SelectSeq(<<"redis", "cache">>, LAMBDA k : k \in DOMAIN tt)

\* entries.map(e => ({topic, content, timestamp, ago}))
EntryResults(tt, k, t) ==
    [i \in 1..Len(tt[k]) |->
        [topic |-> k, content |-> tt[k][i].content,
         timestamp |-> tt[k][i].timestamp,
         ago |-> RoundMinutes(t - tt[k][i].timestamp)]]

RECURSIVE TopicResultsOver(_, _, _, _)
TopicResultsOver(keys, tt, queryLower, t) ==
    IF keys = <<>> THEN <<>>
    ELSE (IF TopicIncludes(queryLower, Head(keys))
          THEN EntryResults(tt, Head(keys), t) ELSE <<>>)
         \o TopicResultsOver(Tail(keys), tt, queryLower, t)

TopicResults(tt, queryLower, t) ==
    TopicResultsOver(TopicOrder(tt), tt, queryLower, t)

DirectResults(mem, queryLower, t) ==
    LET relevant == SelectSeq(mem, LAMBDA e : ContentIncludes(e.content, queryLower))
    IN [i \in 1..Len(relevant) |->
           [topic |-> "direct_match", content |-> relevant[i].content,
            timestamp |-> relevant[i].timestamp,
            ago |-> RoundMinutes(t - relevant[i].timestamp)]]

\* results.sort((a, b) => b.timestamp - a.timestamp), a stable sort
RECURSIVE SortByTimestampDesc(_)
SortByTimestampDesc(r) ==
    IF r = <<>> THEN <<>>
    ELSE LET latest == CHOOSE t \in {r[i].timestamp : i \in 1..Len(r)} :
                          \A i \in 1..Len(r) : r[i].timestamp <= t
         IN SelectSeq(r, LAMBDA x : x.timestamp = latest)
            \o SortByTimestampDesc(SelectSeq(r, LAMBDA x : x.timestamp # latest))

\* Mutant: the first ten results are taken before the sort.
SortedTop(r) == SortByTimestampDesc(SubSeq(r, 1, Min(10, Len(r))))

\* results.sort(...); return results.slice(0, 10)
SortedResults(r) == SubSeq(SortByTimestampDesc(r), 1, Min(10, Len(r)))

\* query.toLowerCase() raises unless query is a string
QueryRaises(query) == ~IsString(query)

recallTopic(query) ==
    IF QueryRaises(query) THEN Raise(TypeError)
    ELSE /\ log' = Report("recall",
                    [id |-> 0,
                     query |-> query,
                     results |-> SortedResults(
                         TopicResults(topicTags, LowerCase(query.tag), now)
                         \o DirectResults(sessionMemory, LowerCase(query.tag), now))],
                    0, FALSE, 0)
         /\ UNCHANGED <<sessionMemory, topicTags, activeSkill, maxSize,
                        compressionThreshold, now, nextId>>

-----------------------------------------------------------------------------
(* LLMService.generateLayeredResponse: three requests in parallel           *)

\* The complexities, in the order of the Promise.all array
Complexities == <<"short", "medium", "long">>

\* A processTextWithSkill call of the three: at is "create" while a backend
\* call is awaited, "delay" during a backoff, "fulfilled" or "rejected" once
\* its promise has settled.
NoLayer == [at |-> "none", attempt |-> 0, response |-> "none", usedFallback |-> FALSE]

NoLayers ==
    [at |-> "idle", n |-> 0, skill |-> "dsa",
     layer |-> [c \in 1..3 |-> NoLayer],
     settled |-> <<>>,
     out |-> [hint |-> "none", explain |-> "none", deepDive |-> "none"]]

\* return { response, metadata: {usedFallback: false, ...} }
Answered(l) ==
    [l EXCEPT !.at = "fulfilled", !.response = "text", !.usedFallback = FALSE]

\* Mutant: the catch block lets the error through.
Rethrown(l, skill) == [l EXCEPT !.at = "rejected"]

\* catch (error) { ...; return this.generateFallbackResponse(text, activeSkill) }
FellBack(l, skill) ==
    [l EXCEPT !.at = "fulfilled",
              !.response = generateFallbackResponse("text", skill).response,
              !.usedFallback = TRUE]

\* processTextWithSkill up to its first await: the canned response without
\* an initialized service, the catch block without a client, and otherwise
\* the first backend call.
StartLayer(skill) ==
    IF NotInitialized
    THEN [NoLayer EXCEPT
             !.at = "fulfilled",
             !.response = generateFallbackResponse("text", skill).response,
             !.usedFallback = TRUE]
    ELSE IF client = "null" THEN FellBack(NoLayer, skill)
    ELSE [NoLayer EXCEPT !.at = "create", !.attempt = 1]

\* The three calls are made one after the other, and Promise.all waits.
generateLayeredResponse(skill) ==
    /\ layers.at \in {"idle", "resolved", "rejected"}
    /\ request.at \in {"idle", "done"}
    /\ layers' = [NoLayers EXCEPT
                     !.at = "running", !.n = layers.n + 1, !.skill = skill,
                     !.layer = [c \in 1..3 |-> StartLayer(skill)],
                     !.settled = IF StartLayer(skill).at = "create" THEN <<>>
                                 ELSE <<1, 2, 3>>]
    /\ errorCount' = IF ~NotInitialized /\ client = "null"
                     THEN errorCount + 3 ELSE errorCount
    /\ UNCHANGED <<client, isInitialized, requestCount, backend, request,
                   calls, delays, result>>

\* The backend call of one of the three settles: with a text the call
\* returns; after a failure it waits and tries again, or, the attempts used
\* up, executeRequest throws and the catch block answers.
LayerCreateSettles(c, outcome) ==
    /\ layers.at = "running"
    /\ layers.layer[c].at = "create"
    /\ LET l == layers.layer[c]
           next == IF AttemptSucceeded([outcome |-> outcome]) THEN Answered(l)
                   ELSE IF BackoffDue(l.attempt) THEN [l EXCEPT !.at = "delay"]
                   ELSE FellBack(l, layers.skill)
       IN /\ layers' = [layers EXCEPT
                           !.layer[c] = next,
                           !.settled = IF next.at \in {"fulfilled", "rejected"}
                                       THEN Append(@, c) ELSE @]
          /\ requestCount' = IF next.at = "fulfilled" /\ ~next.usedFallback
                             THEN requestCount + 1 ELSE requestCount
          /\ errorCount' = IF next.at = "delay" \/ AttemptSucceeded([outcome |-> outcome])
                           THEN errorCount ELSE errorCount + 1
    /\ UNCHANGED <<client, isInitialized, backend, request, calls, delays, result>>

\* The backoff of one of the three is over: attempt++ and the next call.
LayerDelayOver(c) ==
    /\ layers.at = "running"
    /\ layers.layer[c].at = "delay"
    /\ layers' = [layers EXCEPT !.layer[c].at = "create",
                                !.layer[c].attempt = @ + 1]
    /\ UNCHANGED svcVars

\* Promise.all settles: it rejects as soon as one of the three has been
\* rejected, and is fulfilled once all three are.
LayersSettle ==
    /\ layers.at = "running"
    /\ IF \E c \in 1..3 : layers.layer[c].at = "rejected"
       THEN layers' = [layers EXCEPT !.at = "rejected"]
       ELSE /\ \A c \in 1..3 : layers.layer[c].at = "fulfilled"
            /\ layers' = [layers EXCEPT
                             !.at = "resolved",
                             !.out = [hint |-> layers.layer[1].response,
                                      explain |-> layers.layer[2].response,
                                      deepDive |-> layers.layer[3].response]]
    /\ UNCHANGED svcVars

----------------------------------------------------------------------------
(* ApplicationController: chat, audio and co-pilot requests                 *)

NoPending == [at |-> "none", text |-> Str("", 0)]

\* op: the handler; malformed: whether its input was malformed; success and
\* error: the fields of the object it returned ("rejected" when it raised)
Reply(op, malformed, success, error) ==
    [op |-> op, malformed |-> malformed, success |-> success, error |-> error]

NoReply == Reply("none", FALSE, TRUE, "")

\* The ApplicationController as its constructor leaves it (part_000:20-33);
\* timerInterval is the id of the session-timer interval, 0 for none, and
\* intervals are the intervals that were set and not cleared.
NewController ==
    [interviewMode |-> "system-design", activeSkill |-> "system-design",
     sessionActive |-> FALSE, followUpMode |-> FALSE, timerInterval |-> 0,
     intervals |-> {}]

\* CaptureService.isProcessing, with the triggerScreenshotOCR calls that are
\* under way (jobs), how many were made (n) and the last ocr-error
NoCapture == [isProcessing |-> FALSE, jobs |-> <<>>, n |-> 0, error |-> "none"]

IdleController ==
    /\ pending = NoPending
    /\ whisperCalls = 0
    /\ reply = NoReply
    /\ layers = NoLayers
    /\ controller = NewController
    /\ inflight = <<>>
    /\ capture = NoCapture

TextEmpty == Str("", 0)
TextOneChar == Str("k", 1)
TextBlank == [Str("   ", 3) EXCEPT !.ws = 3]

\* text.trim().length, for texts whose white space is in front
TrimmedLen(text) == text.len - text.ws

\* !text || typeof text !== 'string' || text.trim().length < 2
Malformed(text) == ~IsString(text) \/ TrimmedLen(text) < 2

MinAudioBytes == 100

\* ipcMain.handle("send-chat-message"): the text goes to the store, the
\* co-pilot request is scheduled and the caller is told { success: true }
sendChatMessage(text) ==
    /\ pending.at = "none"
    /\ addUserInput(text, "chat")
    /\ IF ReadsLength(text)
       THEN /\ reply' = Reply("send-chat-message", Malformed(text), FALSE,
                              "rejected")
            /\ UNCHANGED pending
       ELSE /\ reply' = Reply("send-chat-message", Malformed(text), TRUE, "")
            /\ pending' = [at |-> "timeout", text |-> text]
    /\ UNCHANGED <<whisperCalls, layers, appVars, svcVars, sesVars>>

\* The setTimeout callback: getOptimizedHistory, then
\* processTranscriptionWithLLM up to its await
processTranscriptionWithLLM ==
    /\ pending.at = "timeout"
    /\ request.at \in {"idle", "done"}
    /\ getOptimizedHistory
    /\ IF Malformed(pending.text)
       THEN /\ pending' = NoPending
            /\ UNCHANGED svcVars
       ELSE /\ pending' = [pending EXCEPT !.at = "awaiting"]
            /\ processTranscriptionWithIntelligentResponse(
                   pending.text.tag, activeSkill)
    /\ UNCHANGED <<whisperCalls, reply, layers, appVars, sesVars>>

\* The response as the store keeps it.
ResponseText(res) ==
    IF res.usedFallback THEN Str(res.response, 130) ELSE TextAnswer

\* Mutant: the response of a request is dropped once the session is over.
DeliverWhileActive(active, res) ==
    IF active THEN addModelResponse(ResponseText(res))
    ELSE UNCHANGED memVars

\* sessionManager.addModelResponse(llmResult.response, {...})
Deliver(active, res) == addModelResponse(ResponseText(res))

\* processTranscriptionWithLLM after its await
DeliverResponse ==
    /\ pending.at = "awaiting"
    /\ request.at = "done"
    /\ Deliver(sessionActive, result)
    /\ pending' = NoPending
    /\ UNCHANGED <<whisperCalls, reply, layers, appVars, svcVars, sesVars>>

\* ipcMain.handle("process-audio-blob") with a payload of `bytes` bytes, and
\* how the transcription backend answers when it is asked
processAudioBlob(bytes, outcome) ==
    /\ pending.at = "none"
    /\ IF bytes < MinAudioBytes
       THEN /\ reply' = Reply("process-audio-blob", TRUE, FALSE,
                              "Audio data too small")
            /\ UNCHANGED <<whisperCalls, pending, memVars>>
       ELSE /\ whisperCalls' = whisperCalls + 1
            /\ CASE outcome = "error" ->
                      /\ reply' = Reply("process-audio-blob", FALSE, FALSE,
                                        "Transcription failed")
                      /\ UNCHANGED <<pending, memVars>>
                 [] outcome = "empty" ->
                      /\ reply' = Reply("process-audio-blob", FALSE, TRUE, "")
                      /\ UNCHANGED <<pending, memVars>>
                 [] OTHER ->
                      /\ reply' = Reply("process-audio-blob", FALSE, TRUE, "")
                      /\ addUserInput(TextPlain, "speech")
                      /\ pending' = [at |-> "timeout", text |-> TextPlain]
    /\ UNCHANGED <<layers, appVars, svcVars, sesVars>>

\* No LLMService call is in progress.
IdleLLM ==
    /\ screenText = {}
    /\ skillArg = "system-design"
    /\ classification = NotClassified
    /\ response = <<>>
    /\ parts = NoParts
    /\ pc = "idle"
    /\ IdleService

\* new SessionManager()
InitMem ==
    /\ sessionMemory = initializeWithSkillPrompts(0)
    /\ topicTags = EmptyTopics
    /\ activeSkill = "system-design"
    /\ maxSize = CfgMaxMemorySize
    /\ compressionThreshold = CfgCompressionThreshold
    /\ now = 0
    /\ nextId = Len(AvailableModes) + 1
    /\ log = Report("init", Nothing, 0, FALSE, 0)
    /\ IdleSession
    /\ IdleController

Init == InitMem /\ IdleLLM

AppendCall ==
    \/ \E source \in {"speech", "chat"} : addUserInput(TextCache, source)
    \/ addModelResponse(TextAnswer)
    \/ addOCREvent(TextPlain)
    \/ addEvent("Application started")
    \/ \E skill \in {"dsa"} : setActiveSkill(skill)

Next ==
    \/ Appended < MaxEvents /\ AppendCall /\ UNCHANGED <<llmVars, svcVars, sesVars, ctlVars>>
    \/ getOptimizedHistory /\ UNCHANGED <<llmVars, svcVars, sesVars, ctlVars>>
    \/ Tick /\ UNCHANGED <<llmVars, svcVars, sesVars, ctlVars>>

Spec == Init /\ [][Next]_vars

\* The follow-up transcript, on logs built by the capture, voice and chat
\* pipelines under the shipped configuration (maxMemorySize 1000,
\* compressionThreshold 500).
ShippedMaxMemorySize == 1000
ShippedCompressionThreshold == 500
MaxTurns == 5

InitFollowUp ==
    /\ sessionMemory = initializeWithSkillPrompts(0)
    /\ topicTags = EmptyTopics
    /\ activeSkill = "system-design"
    /\ maxSize = ShippedMaxMemorySize
    /\ compressionThreshold = ShippedCompressionThreshold
    /\ now = 0
    /\ nextId = Len(AvailableModes) + 1
    /\ log = Report("init", Nothing, 0, FALSE, 0)
    /\ IdleSession
    /\ IdleController
    /\ IdleLLM

AppendTurn ==
    \/ \E text \in {TextPlain, TextLongQuestion} : addUserInput(text, "chat")
    \/ \E text \in {TextLongScreen, TextBlankScreen} : addOCREvent(text)
    \/ \E text \in {TextAnswer, TextLongAnswer} : addModelResponse(text)
    \/ setActiveSkill("dsa")

NextFollowUp ==
    \/ Appended < MaxTurns /\ AppendTurn /\ UNCHANGED <<llmVars, svcVars, sesVars, ctlVars>>
    \/ /\ \E maxPairs \in 1..defaultMaxPairs : getFollowUpContext(maxPairs)
       /\ UNCHANGED <<llmVars, svcVars, sesVars, ctlVars>>

SpecFollowUp == InitFollowUp /\ [][NextFollowUp]_vars

----------------------------------------------------------------------------
(* Claims about the memory store                                            *)

Events(mem) == {mem[i] : i \in 1..Len(mem)}

Expired(timestamp) == timestamp < now - maxDurationMinutes * 60000

JustEvicted == log.op \in {"append", "history"}

\* C1: immediately after evictExpired() has run (inside an append or a
\* history read, before the clock moves again) no event in memory is older
\* than now - maxDurationMinutes*60000 unless it is a system/skill_init event,
\* and no topic occurrence is older than that cutoff.
C1_NoExpiredAfterEvict ==
    JustEvicted =>
        /\ \A e \in Events(sessionMemory) :
              Expired(e.timestamp) =>
                  e.category = "system" /\ e.action = "skill_init"
        /\ \A k \in DOMAIN topicTags :
              \A j \in 1..Len(topicTags[k]) :
                  ~Expired(topicTags[k][j].timestamp)

\* An eviction removed events, an expired skill_init event stayed, and a
\* topic still has (fresh) occurrences.
C1_Witness ==
    /\ JustEvicted
    /\ log.evicted > 0
    /\ \E e \in Events(sessionMemory) :
          Expired(e.timestamp) /\ e.action = "skill_init"
    /\ DOMAIN topicTags # {}

Last(s) == s[Len(s)]

IsSuffix(s, full) ==
    /\ Len(s) <= Len(full)
    /\ s = SubSeq(full, Len(full) - Len(s) + 1, Len(full))

\* C2: after every append the log holds at most maxSize events, and an
\* append whose maintenance truncates leaves exactly the newest maxSize events
\* of the evicted and consolidated log, in their order: only the front goes.
C2_BoundedOldestFirst ==
    /\ Len(sessionMemory) <= maxSize
    /\ [][/\ Len(sessionMemory') <= maxSize'
          /\ (log'.op = "append" /\ log'.removed > 0) =>
               \A full \in {consolidateSimilarEvents(
                                evictExpiredEvents(
                                    Append(sessionMemory, log'.returned), now))} :
                  /\ Len(full) > maxSize
                  /\ Len(sessionMemory') = maxSize
                  /\ IsSuffix(sessionMemory', full)
                  /\ log'.removed = Len(full) - maxSize]_vars

\* A truncation happened and left a full log.
C2_Witness ==
    /\ log.op = "append"
    /\ log.removed > 0
    /\ Len(sessionMemory) = maxSize

SameSystemAction(a, b) ==
    a.category = "system" /\ b.category = "system" /\ a.action = b.action

NoAdjacentDuplicates(mem) ==
    \A i \in 1..(Len(mem) - 1) : ~SameSystemAction(mem[i], mem[i + 1])

\* C3 as claimed: on every log, consolidating twice gives what consolidating
\* once gives.
C3_TwiceEqualsOnce ==
    consolidateSimilarEvents(consolidateSimilarEvents(sessionMemory))
        = consolidateSimilarEvents(sessionMemory)

\* C3 as amended: when the first pass leaves no two adjacent system events
\* with the same action, a second pass changes nothing.
C3_IdempotentOnceNoDuplicatesRemain ==
    LET once == consolidateSimilarEvents(sessionMemory)
    IN NoAdjacentDuplicates(once) => consolidateSimilarEvents(once) = once

\* The first pass merged a pair of skill_change events and left no adjacent
\* duplicates.
C3_Witness ==
    LET once == consolidateSimilarEvents(sessionMemory)
    IN /\ NoAdjacentDuplicates(once)
       /\ Len(once) < Len(sessionMemory)
       /\ \E e \in Events(once) :
             e.action = "skill_change" /\ e.meta.consolidated

\* C4 as claimed: an append, with the eviction, consolidation and truncation
\* it runs, keeps every skill_init event in memory with its content.
C4_SkillInitRetained ==
    [][log'.op = "append" =>
          \A e \in Events(sessionMemory) :
              IsSkillInit(e) =>
                  \E f \in Events(sessionMemory') :
                      f.id = e.id /\ f.content = e.content]_vars

----------------------------------------------------------------------------
(* Claims about the follow-up transcript (SpecFollowUp)                      *)

Relevant == SelectSeq(sessionMemory, IsRelevant)

IsQuestion(e) == e.action = "ocr_capture" \/ e.role = "user"

QuestionText(e) ==
    IF e.action = "ocr_capture" THEN StripOcrPrefix(e.content)
    ELSE e.content

QuestionLabel(e) ==
    IF e.action = "ocr_capture" THEN "SCREEN CONTENT" ELSE "USER MESSAGE"

\* question, model, question, model, ...
Alternating(rel) ==
    /\ Len(rel) % 2 = 0
    /\ \A i \in 1..Len(rel) :
          IF i % 2 = 1 THEN IsQuestion(rel[i]) ELSE rel[i].role = "model"

Turns(text) ==
    IF text = EmptyString THEN <<>> ELSE SubSeq(text, 2, Len(text) - 1)

\* C5: on a log of n alternating question/model pairs getFollowUpContext(k)
\* renders exactly the last min(n, k) pairs in chronological order, every
\* rendered question has at most 1500 characters and every answer at most
\* 2000, and the result is the empty string when there is no pair.
C5_LastPairsCapped ==
    log.op = "followUp" =>
        LET rel == Relevant
            n == Len(rel) \div 2
            m == Min(n, log.maxPairs)
            turns == Turns(log.returned)
        IN /\ \A j \in 1..Len(turns) :
                 /\ StrLen(turns[j].question) <= 1500
                 /\ StrLen(turns[j].answer) <= 2000
           /\ Alternating(rel) =>
                 /\ n = 0 <=> log.returned = EmptyString
                 /\ Len(turns) = m
                 /\ \A j \in 1..m :
                       LET q == rel[2 * (n - m + j) - 1]
                           a == rel[2 * (n - m + j)]
                       IN /\ turns[j].turn = j
                          /\ turns[j].label = QuestionLabel(q)
                          /\ turns[j].question.tag = QuestionText(q).tag
                          /\ turns[j].question.pre = FALSE
                          /\ turns[j].question.len
                                = Min(QuestionText(q).len, 1500)
                          /\ turns[j].answer.tag = a.content.tag
                          /\ turns[j].answer.len = Min(a.content.len, 2000)
           /\ (~\E j \in 1..Len(rel) : rel[j].role = "model")
                 => log.returned = EmptyString

\* The model events that answer a question: the most recent question before
\* them exists and no model event lies between it and them.
Answering(rel) ==
    {j \in 1..Len(rel) :
        /\ rel[j].role = "model"
        /\ \E i \in 1..(j - 1) :
              /\ IsQuestion(rel[i])
              /\ \A x \in (i + 1)..(j - 1) :
                    ~IsQuestion(rel[x]) /\ rel[x].role # "model"}

LastQuestionBefore(rel, j) ==
    CHOOSE i \in 1..(j - 1) :
        IsQuestion(rel[i]) /\ \A x \in (i + 1)..(j - 1) : ~IsQuestion(rel[x])

Kth(S, k) == CHOOSE j \in S : Cardinality({x \in S : x <= j}) = k

\* C6: the pairs are, in chronological order, exactly the model events whose
\* most recent preceding question is still unanswered, each with that
\* question (screen text with its prefix stripped); earlier questions of a
\* row of questions are dropped, no question serves twice, and a model event
\* with no pending question gives no pair.
C6_PairsMostRecentUnanswered ==
    LET rel == Relevant
        pairs == FollowUpPairs(sessionMemory)
        A == Answering(rel)
    IN /\ Len(pairs) = Cardinality(A)
       /\ \A k \in 1..Len(pairs) :
             LET j == Kth(A, k)
                 i == LastQuestionBefore(rel, j)
             IN /\ pairs[k].answer = rel[j].content
                /\ pairs[k].question = QuestionText(rel[i])
                /\ pairs[k].source
                      = IF rel[i].action = "ocr_capture" THEN "screen"
                        ELSE "voice/chat"
       /\ \A k1, k2 \in 1..Len(pairs) :
             k1 # k2 =>
                 LastQuestionBefore(rel, Kth(A, k1))
                     # LastQuestionBefore(rel, Kth(A, k2))

----------------------------------------------------------------------------
(* The classifier on every text over the vocabulary and every mode          *)

InitClassify ==
    /\ InitMem
    /\ screenText \in SUBSET Vocabulary
    /\ skillArg \in Modes
    /\ classification = NotClassified
    /\ response = <<>>
    /\ parts = NoParts
    /\ pc = "extracted"
    /\ IdleService

NextClassify == Classify /\ UNCHANGED <<memVars, svcVars, sesVars, ctlVars>>

SpecClassify == InitClassify /\ [][NextClassify]_vars

CodingHits ==
    Cardinality({i \in 1..7 :
        \E phrase \in screenText : ToLowerCase(phrase) \in codingPatterns[i]})

DesignHits ==
    Cardinality({i \in 1..7 :
        \E phrase \in screenText : ToLowerCase(phrase) \in designPatterns[i]})

\* C7: for a non-empty text the result is coding exactly when the distinct
\* coding patterns hit (+2 in mode dsa or technical-screening) outnumber the
\* distinct design patterns hit (+2 in mode system-design); ties and all the
\* rest are design. In mode system-design: coding iff coding >= design + 3.
C7_CodingIffStrictlyGreater ==
    (pc = "classified" /\ screenText # {}) =>
        LET coding == CodingHits
                      + (IF skillArg = "dsa" \/ skillArg = "technical-screening"
                         THEN 2 ELSE 0)
            design == DesignHits + (IF skillArg = "system-design" THEN 2 ELSE 0)
        IN /\ classification.type \in {"coding", "design"}
           /\ classification.type = "coding" <=> coding > design
           /\ coding = design => classification.type = "design"
           /\ skillArg = "system-design" =>
                 (classification.type = "coding" <=> CodingHits >= DesignHits + 3)

\* Mode system-design, the coding hits exceed the design hits by exactly 3.
C7_Witness ==
    /\ pc = "classified"
    /\ skillArg = "system-design"
    /\ DesignHits >= 1
    /\ CodingHits = DesignHits + 3
    /\ classification.type = "coding"

\* C8: for the empty text no pattern is run and the result is the default of
\* the mode: design in system-design, coding in every other mode.
C8_EmptyTextDefault ==
    (pc = "classified" /\ screenText = {}) =>
        /\ classification.patternsRun = 0
        /\ classification.type
              = IF skillArg = "system-design" THEN "design" ELSE "coding"

\* The empty text in a mode that has no bias.
C8_Witness ==
    /\ pc = "classified"
    /\ screenText = {}
    /\ skillArg = "behavioral"
    /\ classification.type = "coding"

----------------------------------------------------------------------------
(* The splitter on every response of up to MaxLines lines                   *)

MaxLines == 4

\* The lines a response is made of: headings in the formats the code
\* comment lists, body lines, a bullet, an indented line and the blank line.
HeadingsA ==
    {<<"#", "#", " ", "Part A">>,
     <<"#", "#", " ", "Part A", " ", "-", " ", "Approach">>,
     <<"*", "*", "part a", "*", "*">>}

HeadingsB ==
    {<<"#", "#", " ", "Part B">>,
     <<"Part B", ":", " ", "Solution">>}

BodyLines ==
    {<<"Do X">>, <<"Code Y">>, <<"-", " ", "step">>, <<" ", "indented">>, <<>>}

LineShapes == HeadingsA \cup HeadingsB \cup BodyLines

\* lines.join('\n')
RECURSIVE Join(_)
Join(lines) ==
    IF Len(lines) = 0 THEN <<>>
    ELSE IF Len(lines) = 1 THEN lines[1]
    ELSE lines[1] \o <<"\n">> \o Join(Tail(lines))

\* text.split('\n')
RECURSIVE SplitLines(_)
SplitLines(text) ==
    LET breaks == {i \in 1..Len(text) : text[i] = "\n"}
    IN IF breaks = {} THEN <<text>>
       ELSE LET b == CHOOSE x \in breaks : \A y \in breaks : x <= y
            IN <<SubSeq(text, 1, b - 1)>> \o SplitLines(SubSeq(text, b + 1, Len(text)))

\* The completion grows line by line,
InitSplit ==
    /\ InitMem
    /\ screenText = {}
    /\ skillArg = "system-design"
    /\ classification = NotClassified
    /\ response \in LineShapes
    /\ parts = NoParts
    /\ pc = "responding"
    /\ IdleService

WriteLine ==
    /\ pc = "responding"
    /\ Len(SplitLines(response)) < MaxLines
    /\ \E line \in LineShapes : response' = response \o <<"\n">> \o line
    /\ UNCHANGED <<screenText, skillArg, classification, parts, pc>>

\* and executeRequest returns the text unless it is empty.
executeRequest ==
    /\ pc = "responding"
    /\ response # <<>>
    /\ pc' = "responded"
    /\ UNCHANGED <<screenText, skillArg, classification, response, parts>>

NextSplit ==
    \/ WriteLine /\ UNCHANGED <<memVars, svcVars, sesVars, ctlVars>>
    \/ executeRequest /\ UNCHANGED <<memVars, svcVars, sesVars, ctlVars>>
    \/ Split /\ UNCHANGED <<memVars, svcVars, sesVars, ctlVars>>

SpecSplit == InitSplit /\ [][NextSplit]_vars

HasLabel(text) == \E i \in 1..Len(text) : Matches(PartA, text[i]) \/ Matches(PartB, text[i])

\* The response is a Part A heading line, body lines, a Part B heading line
\* and body lines, with some text in both bodies.
TwoPart(lines, b) ==
    /\ b \in 3..(Len(lines) - 1)
    /\ lines[1] \in HeadingsA
    /\ lines[b] \in HeadingsB
    /\ \A i \in (1..Len(lines)) \ {1, b} : lines[i] \in BodyLines
    /\ \E i \in 2..(b - 1) : lines[i] # <<>>
    /\ \E i \in (b + 1)..Len(lines) : lines[i] # <<>>

\* C9: for a response made of a Part A heading line, body lines, a Part B
\* heading line and body lines, partA is the whole trimmed body between the
\* two headings and partB the whole trimmed body after the Part B heading.
C9_BodiesKeptWhole ==
    pc = "split" =>
        LET lines == SplitLines(response)
        IN \A b \in 1..Len(lines) :
              TwoPart(lines, b) =>
                 /\ parts.partA = trim(Join(SubSeq(lines, 2, b - 1)))
                 /\ parts.partB = trim(Join(SubSeq(lines, b + 1, Len(lines))))

\* C10: a response with neither label comes back whole as partB, with
\* partA empty.
C10_NoLabelWholeResponseInPartB ==
    (pc = "split" /\ ~HasLabel(response)) =>
        /\ parts.partA = <<>>
        /\ parts.partB = response

\* An unlabelled response of several lines that trim would have shortened.
C10_Witness ==
    /\ pc = "split"
    /\ ~HasLabel(response)
    /\ Len(SplitLines(response)) >= 2
    /\ trim(response) # response
    /\ parts.partB = response
    /\ parts.partA = <<>>

\* Line h is the only heading of the response, every other line is a body
\* line, and some text follows the heading.
OneHeading(lines, h, Headings) ==
    /\ lines[h] \in Headings
    /\ \A i \in (1..Len(lines)) \ {h} : lines[i] \in BodyLines
    /\ \E i \in (h + 1)..Len(lines) : lines[i] # <<>>

\* C11: when exactly one of the two labels is present, the part of that
\* label is the (trimmed) body under its heading and the other part is the
\* empty string.
C11_OnlyLabelledPartPopulated ==
    pc = "split" =>
        LET lines == SplitLines(response)
        IN \A h \in 1..Len(lines) :
              LET body == trim(Join(SubSeq(lines, h + 1, Len(lines))))
              IN /\ OneHeading(lines, h, HeadingsA) =>
                       parts = [partA |-> body, partB |-> <<>>]
                 /\ OneHeading(lines, h, HeadingsB) =>
                       parts = [partA |-> <<>>, partB |-> body]

----------------------------------------------------------------------------
(* The LLMService under every backend behaviour                             *)

MaxRequests == 2

VisionScripts == {"ok", "failOnce", "alwaysFail", "alwaysEmpty"}

InitService ==
    /\ InitMem
    /\ screenText = {}
    /\ skillArg = "system-design"
    /\ classification = NotClassified
    /\ response = <<>>
    /\ parts = NoParts
    /\ pc = "idle"
    /\ \E apiKey \in {"", "gsk"} :
          /\ client = initializeClient(apiKey, FALSE, "null").client
          /\ isInitialized = initializeClient(apiKey, FALSE, "null").isInitialized
    /\ requestCount = 0
    /\ errorCount = 0
    /\ backend \in {b \in [Models -> Scripts] :
                      \A i \in 1..Len(visionModels) :
                          b[visionModels[i]] \in VisionScripts}
    /\ request = NoRequest
    /\ calls = <<>>
    /\ delays = <<>>
    /\ result = NoResult

EntryPoint ==
    \E skill \in {"system-design", "dsa"} :
        \/ processTextWithSkill("What is a heap?", skill)
        \/ processTranscriptionWithIntelligentResponse("What is a heap?", skill)
        \/ processImageWithSkill(skill)
        \/ processScreenCaptureWithStructuredResponse(skill)

NextService ==
    \/ request.n < MaxRequests /\ EntryPoint /\ UNCHANGED <<memVars, llmVars, sesVars, ctlVars>>
    \/ VisionCall /\ UNCHANGED <<memVars, llmVars, sesVars, ctlVars>>
    \/ ImageCall /\ UNCHANGED <<memVars, llmVars, sesVars, ctlVars>>
    \/ Attempt /\ UNCHANGED <<memVars, llmVars, sesVars, ctlVars>>
    \/ Backoff /\ UNCHANGED <<memVars, llmVars, sesVars, ctlVars>>
    \/ /\ \E newApiKey \in {"", "gsk"}, constructorThrows \in BOOLEAN :
             updateApiKey(newApiKey, constructorThrows)
       /\ UNCHANGED <<memVars, llmVars, sesVars, ctlVars>>

SpecService == InitService /\ [][NextService]_vars

\* The screen capture call is over; the first vision model always fails, the
\* second succeeds on its second attempt only, and the rest answers.
FirstFailsSecondFailsOnce ==
    /\ request.kind = "screen"
    /\ request.at = "done"
    /\ calls # <<>>
    /\ backend[visionModels[1]] = "alwaysFail"
    /\ backend[visionModels[2]] = "failOnce"
    /\ backend[visionModels[3]] = "ok"
    /\ backend[model] = "ok"

VisionCalls == SelectSeq(calls, LAMBDA c : c.model # model)

TextCalls == SelectSeq(calls, LAMBDA c : c.model = model)

FailedTextCalls == Cardinality({i \in 1..Len(TextCalls) : TextCalls[i].outcome # "text"})

\* C13: executeRequest makes at most maxRetries backend calls and stops at
\* the first success; after the failed attempt number k it waits k * 1000 ms
\* when k < maxRetries, and after the final failed attempt it raises with no
\* further wait.
C13_BoundedRetriesWithBackoff ==
    /\ Len(TextCalls) <= maxRetries
    /\ \A i \in 1..Len(TextCalls) :
           TextCalls[i].outcome = "text" => i = Len(TextCalls) /\ request.at = "done"
    /\ Len(delays) = IF FailedTextCalls < maxRetries THEN FailedTextCalls
                     ELSE maxRetries - 1
    /\ \A k \in 1..Len(delays) : delays[k] = 1000 * k
    /\ FailedTextCalls = maxRetries => request.at = "done" /\ result.usedFallback

\* The retry loop ran out: maxRetries failed calls, two waits, then the raise.
C13_Witness ==
    /\ request.at = "done"
    /\ request.kind = "text"
    /\ Len(TextCalls) = maxRetries
    /\ FailedTextCalls = maxRetries
    /\ delays = <<1000, 2000>>
    /\ result.usedFallback

\* The text retry loop takes an empty payload for a failure: no request ends
\* in success on one.
TextEmptyIsFailure ==
    \A i \in 1..Len(calls) :
       calls[i].model = model /\ calls[i].outcome = "empty" =>
          ~(i = Len(calls) /\ request.at = "done" /\ ~result.usedFallback)

\* The vision chain takes an empty payload for a failure: the next candidate
\* is tried, or the chain has run out.
VisionEmptyIsFailure ==
    \A i \in 1..Len(calls) :
       request.kind = "screen" /\ calls[i].model # model
                               /\ calls[i].outcome = "empty" =>
          IF i < Len(calls) THEN calls[i + 1].model # model
          ELSE request.at = "vision" \/ result.usedFallback

\* C14: in every backend chain, the text retry loop and the vision model
\* chain, an attempt whose payload is empty is treated as a failed attempt.
C14_EmptyPayloadIsFailure == TextEmptyIsFailure /\ VisionEmptyIsFailure

\* The call that ends in this step made backend attempts and none of them
\* produced text.
EndsWithEveryAttemptFailed ==
    /\ request.at # "done"
    /\ request'.at = "done"
    /\ request.kind \in {"text", "transcription", "screen"}
    /\ Len(calls') > 0
    /\ \A i \in 1..Len(calls') : calls'[i].outcome # "text"

\* C15: when every backend attempt fails, processTextWithSkill,
\* processTranscriptionWithIntelligentResponse and
\* processScreenCaptureWithStructuredResponse do not throw: the call returns
\* the canned fallback with usedFallback = true, and errorCount grows by
\* exactly one.
C15_FailureReturnsFallbackOnce ==
    [][EndsWithEveryAttemptFailed =>
          /\ result' = generateFallbackResponse(
                           IF request.kind = "screen"
                           THEN "Image analysis failed"
                           ELSE request.extractedText, request.skill)
          /\ result'.usedFallback
          /\ errorCount' = errorCount + 1
          /\ requestCount' = requestCount]_vars

\* A second failed call: every vision model raised, the canned response came
\* back and both failures were counted.
C15_Witness ==
    /\ request.at = "done"
    /\ request.kind = "screen"
    /\ request.n = 2
    /\ Len(calls) = Len(visionModels)
    /\ \A i \in 1..Len(calls) : calls[i].outcome = "error"
    /\ result.usedFallback
    /\ errorCount = 2

\* An entry point is called in this step while the service is not
\* initialized.
EnteredUninitialized == request'.n = request.n + 1 /\ ~isInitialized

\* C16: while the client is not initialized, every orchestration entry point
\* returns the canned skill-aware fallback in the same step and issues no
\* backend call, in every state that updateApiKey and initializeClient can
\* reach.
C16_UninitializedShortCircuits ==
    [][EnteredUninitialized =>
          /\ request'.at = "done"
          /\ result'.usedFallback
          /\ result'.model = "fallback"
          /\ result'.response = <<"canned", request'.skill>>
          /\ calls' = <<>>
          /\ delays' = <<>>
          /\ requestCount' = requestCount
          /\ errorCount' = errorCount]_vars

\* A key was set and removed again: the client object is still there, the
\* service is not initialized, and the call came back canned with no backend
\* call.
C16_Witness ==
    /\ client = "groq"
    /\ ~isInitialized
    /\ request.at = "done"
    /\ request.n = 2
    /\ result.usedFallback
    /\ calls = <<>>
    /\ requestCount = 1
    /\ errorCount = 0

----------------------------------------------------------------------------
(* Sessions, chat and audio input, and the store under values that are not  *)
(* text                                                                     *)

MaxStarts == 2
MaxChats == 1
MaxInputs == 2

NonTextValues == {NonText(kind) : kind \in NonTextKinds}

ChatTexts == {TextCache, TextEmpty, TextOneChar, TextBlank,
              NonText("null"), NonText("number")}

InitSession ==
    /\ InitMem
    /\ screenText = {}
    /\ skillArg = "system-design"
    /\ classification = NotClassified
    /\ response = <<>>
    /\ parts = NoParts
    /\ pc = "idle"
    /\ \E apiKey \in {"", "gsk"} :
          /\ client = initializeClient(apiKey, FALSE, "null").client
          /\ isInitialized = initializeClient(apiKey, FALSE, "null").isInitialized
    /\ requestCount = 0
    /\ errorCount = 0
    /\ backend \in {b \in [Models -> {"ok", "alwaysFail"}] :
                      \A i \in 1..Len(visionModels) : b[visionModels[i]] = "ok"}
    /\ request = NoRequest
    /\ calls = <<>>
    /\ delays = <<>>
    /\ result = NoResult

\* The store called with a value that is not text.
NonTextCall ==
    \E v \in NonTextValues :
        \/ addModelResponse(v)
        \/ addOCREvent(v)
        \/ addEventNonText(v)
        \/ recallTopic(v)

NextSession ==
    \/ /\ nextTimer <= MaxStarts
       /\ startSession("dsa")
       /\ UNCHANGED <<llmVars, svcVars, ctlVars>>
    \/ endSession /\ UNCHANGED <<llmVars, svcVars, ctlVars>>
    \/ TimerFires /\ UNCHANGED <<llmVars, svcVars, ctlVars>>
    \/ SessionTick /\ UNCHANGED <<llmVars, svcVars, ctlVars>>
    \/ /\ request.n < MaxChats
       /\ sendChatMessage(TextCache)
       /\ UNCHANGED llmVars
    \/ processTranscriptionWithLLM /\ UNCHANGED llmVars
    \/ Attempt /\ UNCHANGED <<memVars, llmVars, sesVars, ctlVars>>
    \/ Backoff /\ UNCHANGED <<memVars, llmVars, sesVars, ctlVars>>
    \/ DeliverResponse /\ UNCHANGED llmVars

SpecSession == InitSession /\ [][NextSession]_vars

NextInput ==
    \/ /\ Appended < MaxInputs
       /\ request.n < MaxRequests
       /\ \E text \in ChatTexts : sendChatMessage(text)
       /\ UNCHANGED llmVars
    \/ /\ Appended < MaxInputs
       /\ request.n < MaxRequests
       /\ whisperCalls < MaxInputs
       /\ \E bytes \in {MinAudioBytes - 1, MinAudioBytes},
             outcome \in {"text", "empty", "error"} :
             processAudioBlob(bytes, outcome)
       /\ UNCHANGED llmVars
    \/ processTranscriptionWithLLM /\ UNCHANGED llmVars
    \/ Attempt /\ UNCHANGED <<memVars, llmVars, sesVars, ctlVars>>
    \/ Backoff /\ UNCHANGED <<memVars, llmVars, sesVars, ctlVars>>
    \/ DeliverResponse /\ UNCHANGED llmVars
    \/ /\ Appended < MaxInputs
       /\ NonTextCall
       /\ UNCHANGED <<llmVars, svcVars, sesVars, ctlVars>>
    \/ recallTopic(Str("redis", 5))
          /\ UNCHANGED <<llmVars, svcVars, sesVars, ctlVars>>

SpecInput == InitSession /\ [][NextInput]_vars

\* A handler answered a malformed input in this step.
AnsweredMalformed == reply' # reply /\ reply'.malformed

\* The reply is a failure object with a reason a person can read.
StructuredFailure(r) == ~r.success /\ r.error \notin {"", "rejected"}

\* The co-pilot request scheduled for a malformed text is taken up in this
\* step.
TakesUpMalformed ==
    /\ pending.at = "timeout"
    /\ pending'.at # "timeout"
    /\ Malformed(pending.text)

\* C17: malformed input, a text that is empty or shorter than 2 characters
\* once trimmed or an audio payload under 100 bytes, is rejected before any
\* backend call, is not retried, and comes back to the caller as a
\* structured failure with a human-readable reason.
C17_MalformedInputRejected ==
    [][/\ AnsweredMalformed =>
             /\ StructuredFailure(reply')
             /\ whisperCalls' = whisperCalls
             /\ calls' = calls
             /\ request' = request
       /\ TakesUpMalformed =>
             /\ pending' = NoPending
             /\ whisperCalls' = whisperCalls
             /\ calls' = calls
             /\ request' = request]_vars

\* C18: no memory-store operation raises: addUserInput, addModelResponse,
\* addOCREvent, addEvent and recallTopic, given a content or a query that is
\* not text (null, undefined, a number, an object), skip or coerce the value
\* and leave the store usable.
C18_NoStoreOperationRaises == log.op # "raise"

\* The timer callback ends a session that nobody has ended since its start.
AutoEnds ==
    /\ sessionActive
    /\ ~sessionActive'
    /\ summary'.endedBy = "timer"

\* C19: after start(mode), if end() is never called, the store ends the
\* session itself once maxDurationMinutes have elapsed, with no caller
\* polling: the session is never active past the limit, and the summary
\* computed at the automatic end has durationMinutes equal to the limit.
C19_AutoEndAtLimit ==
    /\ [](sessionActive => now - sessionStartTime <= WindowMs)
    /\ [][AutoEnds => summary'.durationMinutes = maxDurationMinutes]_vars

\* The timer callback ends the session in this step.
TimerEndsSession == summary' # summary /\ summary'.endedBy = "timer"

\* A co-pilot request completes in this step, after the session has ended.
CompletesAfterEnd ==
    /\ ~sessionActive
    /\ pending.at = "awaiting"
    /\ pending'.at = "none"

\* C20: a model request in flight when the session ends by itself is not
\* cancelled: the end leaves the request as it is, and when the request
\* completes after the session has become inactive its response is appended
\* to the memory.
C20_InFlightResponseAppended ==
    [][/\ TimerEndsSession => pending' = pending /\ request' = request
       /\ CompletesAfterEnd =>
             /\ sessionMemory' # <<>>
             /\ sessionMemory'[Len(sessionMemory')].role = "model"
             /\ sessionMemory'[Len(sessionMemory')].content = ResponseText(result)
             /\ sessionMemory'[Len(sessionMemory')].timestamp = now]_vars

\* The only request began before the automatic end, the summary of that end
\* counts the question and no response, and the response is the last event
\* of the memory of the inactive session.
C20_Witness ==
    /\ ~sessionActive
    /\ summary.endedBy = "timer"
    /\ summary.userMessages = 1
    /\ summary.aiResponses = 0
    /\ request.n = 1
    /\ request.at = "done"
    /\ request.startTime < sessionStartTime + summary.durationMinutes * 60000
    /\ pending = NoPending
    /\ sessionMemory # <<>>
    /\ sessionMemory[Len(sessionMemory)].role = "model"
    /\ sessionMemory[Len(sessionMemory)].timestamp
           >= sessionStartTime + summary.durationMinutes * 60000

----------------------------------------------------------------------------
(* The store through sessions: start, end, clear, the timer and appends     *)

MaxLifeEvents == 3

\* maxMemorySize and compressionThreshold, scaled so that three appends reach
\* the truncation
LifeMaxMemorySize == 3
LifeCompressionThreshold == 2

InitLifecycle ==
    /\ sessionMemory = initializeWithSkillPrompts(0)
    /\ topicTags = EmptyTopics
    /\ activeSkill = "system-design"
    /\ maxSize = LifeMaxMemorySize
    /\ compressionThreshold = LifeCompressionThreshold
    /\ now = 0
    /\ nextId = Len(AvailableModes) + 1
    /\ log = Report("init", Nothing, 0, FALSE, 0)
    /\ IdleSession
    /\ IdleController
    /\ IdleLLM

\* The limits the history is read with: one that cuts, and the default.
HistoryLimits == {1, DefaultLimit}

LifecycleAppend ==
    \/ addUserInput(TextCache, "chat")
    \/ addModelResponse(TextAnswer)
    \/ addOCREvent(TextLongCache)

NextLifecycle ==
    \/ /\ nextTimer <= MaxStarts
       /\ startSession("dsa")
       /\ UNCHANGED <<llmVars, svcVars, ctlVars>>
    \/ endSession /\ UNCHANGED <<llmVars, svcVars, ctlVars>>
    \/ clear /\ UNCHANGED <<llmVars, svcVars, ctlVars>>
    \/ TimerFires /\ UNCHANGED <<llmVars, svcVars, ctlVars>>
    \/ SessionTick /\ UNCHANGED <<llmVars, svcVars, ctlVars>>
    \/ /\ Appended < MaxLifeEvents
       /\ LifecycleAppend
       /\ UNCHANGED <<llmVars, svcVars, sesVars, ctlVars>>
    \/ \E limit \in HistoryLimits :
          getOptimizedHistoryWith(limit)
          /\ UNCHANGED <<llmVars, svcVars, sesVars, ctlVars>>

SpecLifecycle == InitLifecycle /\ [][NextLifecycle]_vars

\* C21: in every reachable state the session's start time is null whenever
\* the session is inactive, after end() and after the automatic end too.
C21_StartTimeNullWhenInactive == ~sessionActive => sessionStartTime = NoTime

\* startSession returns in this step.
Starts == nextTimer' = nextTimer + 1

\* C22: start(mode) resets the store and arms the deadline: right after it,
\* the memory holds exactly one event, the session_start system event, the
\* topic index holds nothing from before the call, the session is active,
\* activeSkill is mode and a timer is set for maxDurationMinutes from now.
C22_StartResetsAndArms ==
    [][Starts =>
          /\ Len(sessionMemory') = 1
          /\ sessionMemory'[1].action = "session_start"
          /\ sessionMemory'[1].role = "system"
          /\ sessionMemory'[1].timestamp = now
          /\ sessionMemory'[1].meta.skill = activeSkill'
          /\ DOMAIN topicTags' = {}
          /\ sessionActive'
          /\ activeSkill' = "dsa"
          /\ sessionStartTime' = now
          /\ [id |-> sessionTimer',
              due |-> now + maxDurationMinutes * 60 * 1000] \in timers']_vars

\* A first session has just started, later than the launch, on a store that
\* had taken two appends: one event is left and no topic.
C22_Witness ==
    /\ nextTimer = 2
    /\ Appended >= 3
    /\ log.op = "append"
    /\ log.returned.action = "session_start"
    /\ Len(sessionMemory) = 1
    /\ DOMAIN topicTags = {}
    /\ sessionActive
    /\ now > 0

\* The events are in the order of their insertion (fresh ids grow) and their
\* timestamps do not decrease along the log.
InInsertionOrder(mem) ==
    \A i, j \in 1..Len(mem) :
       i < j => mem[i].id < mem[j].id /\ mem[i].timestamp <= mem[j].timestamp

\* C23: in every state reached through append, eviction, consolidation,
\* truncation, start and clear, the events of sessionMemory are in insertion
\* order and their timestamps are non-decreasing along the log.
C23_LogOrderedByInsertionAndTime == InInsertionOrder(sessionMemory)

\* An append has just truncated a log whose events span several instants.
C23_Witness ==
    /\ log.op = "append"
    /\ log.removed > 0
    /\ Len(sessionMemory) >= 3
    /\ sessionMemory[1].timestamp < sessionMemory[Len(sessionMemory)].timestamp

\* The handler that ran last began or ended with evictExpiredEvents.
RanEviction == log.op \in {"append", "history"}

\* C24: in every reachable state every key of the topic index maps to a
\* non-empty occurrence list, every key is lower-cased and every stored
\* snippet has at most 200 characters; and once the eviction has run, no
\* occurrence lies outside the retention window, so a topic whose
\* occurrences have all expired is gone.
C24_TopicIndexWellFormed ==
    \A k \in DOMAIN topicTags :
       /\ topicTags[k] # <<>>
       /\ TopicKey(k) = k
       /\ \A i \in 1..Len(topicTags[k]) :
              /\ StrLen(topicTags[k][i].content) <= 200
              /\ RanEviction => topicTags[k][i].timestamp >= CutoffTime(now)

\* A screen text of 260 characters is appended after the retention window
\* of everything before it has passed: earlier events were evicted, and
\* "redis" and "cache" hold only its snippet, cut to 200 characters.
C24_Witness ==
    /\ log.op = "append"
    /\ log.evicted >= 1
    /\ now >= WindowMs + TickMs
    /\ StrLen(log.returned.content) > 200
    /\ DOMAIN topicTags = {"redis", "cache"}
    /\ \A k \in DOMAIN topicTags :
          /\ Len(topicTags[k]) = 1
          /\ StrLen(topicTags[k][1].content) = 200
          /\ topicTags[k][1].timestamp = now

\* The events the claim puts in `important`.
IsInteractionAiOrOcr(e) ==
    e.category \in {"interaction", "ai"} \/ e.action = "ocr_capture"

\* The events the claim puts in `recent`.
IsUserModelOrOcr(e) ==
    e.role \in {"user", "model"} \/ e.action = "ocr_capture"

\* C25: what getOptimizedHistory(limit) returns: recent is the last `limit`
\* of the user, model and ocr_capture events, and important is the last 5
\* of the interaction, ai and ocr_capture events, so that an ocr_capture
\* event among the 5 most recent of those is in important.
C25_HistorySelectsOcrAsImportant ==
    log.op = "history" =>
       /\ log.returned.recent =
             SliceLast(SelectSeq(sessionMemory, IsUserModelOrOcr), log.returned.limit)
       /\ log.returned.important =
             SliceLast(SelectSeq(sessionMemory, IsInteractionAiOrOcr), 5)

-----------------------------------------------------------------------------
(* Recall: texts are appended as the clock moves, and topics are recalled   *)

MaxRecallEvents == 4

RecallQueries == {Str("Redis", 5), Str("CACHE", 5), Str("Redis Cache", 11)}

NextRecall ==
    \/ /\ Appended < MaxRecallEvents
       /\ \/ addUserInput(TextCache, "chat")
          \/ addModelResponse(TextAnswer)
          \/ addOCREvent(TextLongCache)
       /\ UNCHANGED <<llmVars, svcVars, sesVars, ctlVars>>
    \/ Tick /\ UNCHANGED <<llmVars, svcVars, sesVars, ctlVars>>
    \/ \E query \in RecallQueries :
          recallTopic(query)
          /\ UNCHANGED <<activeSkill, llmVars, svcVars, sesVars, ctlVars>>

SpecRecall == Init /\ [][NextRecall]_vars

\* The lower-cased query of the recall that ran last.
RecalledQuery == LowerCase(log.returned.query.tag)

\* The topics whose key contains the query or is contained in it.
RecalledTopics ==
    {k \in DOMAIN topicTags :
        Includes(k, RecalledQuery) \/ Includes(RecalledQuery, k)}

\* The union of the claim: the occurrences <<k, i>> of the recalled topics
\* and the events <<"direct_match", i>> whose content contains the query.
RecallUnion ==
    (UNION {{<<k, i>> : i \in 1..Len(topicTags[k])} : k \in RecalledTopics})
    \cup {<<"direct_match", i>> : i \in
            {j \in 1..Len(sessionMemory) :
                /\ IsString(sessionMemory[j].content)
                /\ Includes(LowerCase(sessionMemory[j].content.tag), RecalledQuery)}}

\* What a member of the union looks like as a result.
UnionResult(u) ==
    IF u[1] = "direct_match"
    THEN [topic |-> "direct_match", content |-> sessionMemory[u[2]].content,
          timestamp |-> sessionMemory[u[2]].timestamp]
    ELSE [topic |-> u[1], content |-> topicTags[u[1]][u[2]].content,
          timestamp |-> topicTags[u[1]][u[2]].timestamp]

Returned(i) ==
    [topic |-> log.returned.results[i].topic,
     content |-> log.returned.results[i].content,
     timestamp |-> log.returned.results[i].timestamp]

\* How often a result occurs in the union, and among the results returned.
TimesInUnion(r) == Cardinality({u \in RecallUnion : UnionResult(u) = r})
TimesReturned(r) ==
    Cardinality({i \in 1..Len(log.returned.results) : Returned(i) = r})

\* C26: recallTopic(query) returns at most 10 results, the most recent
\* first, each drawn from the union of the occurrences of the topics whose
\* key contains the lower-cased query or is contained in it and of the
\* events whose content contains the query in any case; and the results
\* are the 10 most recent of the union: all of it when it has 10 members or
\* fewer, and otherwise 10 with every member more recent than the last
\* result among them.
C26_RecallReturnsTenMostRecent ==
    log.op = "recall" =>
       LET n == Len(log.returned.results)
       IN /\ n = Min(10, Cardinality(RecallUnion))
          /\ \A i, j \in 1..n :
                i < j => log.returned.results[i].timestamp
                            >= log.returned.results[j].timestamp
          /\ \A i \in 1..n : TimesReturned(Returned(i)) <= TimesInUnion(Returned(i))
          /\ \A u \in RecallUnion :
                (n > 0 /\ UnionResult(u).timestamp > log.returned.results[n].timestamp)
                   => TimesReturned(UnionResult(u)) = TimesInUnion(UnionResult(u))

\* A recall, by a query written in capitals, whose union has more than 10
\* members of different ages, so that some of the oldest are left out; the
\* 10 returned hold occurrences of a topic and an event matched by its
\* content.
C26_Witness ==
    /\ log.op = "recall"
    /\ Cardinality(RecallUnion) > 10
    /\ Len(log.returned.results) = 10
    /\ log.returned.results[1].timestamp > log.returned.results[10].timestamp
    /\ \E u \in RecallUnion :
          /\ UnionResult(u).timestamp = log.returned.results[10].timestamp
          /\ TimesReturned(UnionResult(u)) < TimesInUnion(UnionResult(u))
    /\ \E i \in 1..10 : log.returned.results[i].topic = "direct_match"
    /\ \E i \in 1..10 : log.returned.results[i].topic = "cache"
    /\ log.returned.query.tag # RecalledQuery

-----------------------------------------------------------------------------
(* LLMService.buildMessages: the message sequence of a request              *)

\* event.role && event.content: "", null and undefined are falsy
Qualifies(e) ==
    /\ e.role # ""
    /\ IF IsString(e.content) THEN StrLen(e.content) > 0 ELSE ~Nullish(e.content)

\* JSON.stringify(event.content) of a number or an object: "5", "{}"
JsonStringify(v) == Str(v.tag, IF v.tag = "number" THEN 1 ELSE 2)

\* Mutant: a screen capture keeps the role of a system event.
RoleAsStored(e) ==
    IF e.role = "model" THEN "assistant"
    ELSE IF e.role = "user" THEN "user"
    ELSE "system"

\* The role an event is sent with.
MessageRole(e) ==
    IF e.role = "model" THEN "assistant"
    ELSE IF e.role = "user" \/ (e.role = "system" /\ e.action = "ocr_capture")
    THEN "user"
    ELSE "system"

\* A message content: a text, after "[Screen Content]: " when screen is set.
Plain(text) == [text |-> text, screen |-> FALSE]

\* content.replace(/^Screenshot captured:\s*/i, '[Screen Content]: ') for an
\* ocr_capture event, on the content or on its JSON
MessageContent(e) ==
    LET content == IF IsString(e.content) THEN e.content
                   ELSE JsonStringify(e.content)
    IN IF e.action = "ocr_capture" /\ content.pre
       THEN [text |-> StripOcrPrefix(content), screen |-> TRUE]
       ELSE Plain(content)

\* Mutant: the first 20 qualifying events are kept.
KeepFirst(events) == SubSeq(events, 1, Min(20, Len(events)))

\* .slice(-20)
KeepLast(events) == SliceLast(events, 20)

FormatEvents(kept) ==
    [i \in 1..Len(kept) |->
        [role |-> MessageRole(kept[i]), content |-> MessageContent(kept[i])]]

formatSessionMemory(mem) ==
    IF Len(mem) = 0 THEN <<>>
    ELSE FormatEvents(KeepLast(SelectSeq(mem, Qualifies)))

buildMessages(systemPrompt, userText, mem) ==
    <<[role |-> "system", content |-> Plain(systemPrompt)]>>
    \o formatSessionMemory(mem)
    \o <<[role |-> "user", content |-> Plain(userText)]>>

SystemPromptText == Str("You are an interview assistant", 30)

\* processTextWithSkill composes the request for a text, given a memory.
Compose(userText) ==
    /\ log.op # "messages"
    /\ log' = Report("messages",
                     [id |-> 0, userText |-> userText,
                      messages |-> buildMessages(SystemPromptText, userText,
                                                 sessionMemory)],
                     0, FALSE, 0)
    /\ UNCHANGED <<sessionMemory, topicTags, activeSkill, maxSize,
                   compressionThreshold, now, nextId>>

\* The memories a request is composed from: up to three runs of events of
\* one kind each, a run being empty, one event, or RunLong events, so that
\* two long runs hold more than 20 events. The i-th event has timestamp i
\* and a text of its own length.
RunLong == 11
RunLengths == {0, 1, RunLong}
EventKinds == {"user", "model", "ocr", "system", "empty", "null", "object"}

ContextEvent(i, kind) ==
    CASE kind = "user" ->
            NewEvent(i, i, "user", Str("question", 10 + i), "chat_input", "dsa")
      [] kind = "model" ->
            NewEvent(i, i, "model", Str("answer", 10 + i), "model_response", "dsa")
      [] kind = "ocr" ->
            NewEvent(i, i, "system", [Str("screen", 10 + i) EXCEPT !.pre = TRUE],
                     "ocr_capture", "dsa")
      [] kind = "system" ->
            NewEvent(i, i, "system", Str("session", 10 + i), "session_start", "dsa")
      [] kind = "empty" ->
            NewEvent(i, i, "user", Str("", 0), "chat_input", "dsa")
      [] kind = "null" ->
            NewEvent(i, i, "system", NonText("null"), "note", "dsa")
      [] OTHER ->
            NewEvent(i, i, "system", NonText("object"), "note", "dsa")

Run(kind, from, count) == [i \in 1..count |-> ContextEvent(from + i - 1, kind)]

ContextMemory(k1, c1, k2, c2, k3, c3) ==
    Run(k1, 1, c1) \o Run(k2, c1 + 1, c2) \o Run(k3, c1 + c2 + 1, c3)

InitContext ==
    /\ \E k1, k2, k3 \in EventKinds : \E c1, c2, c3 \in RunLengths :
          sessionMemory = ContextMemory(k1, c1, k2, c2, k3, c3)
    /\ topicTags = EmptyTopics
    /\ activeSkill = "dsa"
    /\ maxSize = CfgMaxMemorySize
    /\ compressionThreshold = CfgCompressionThreshold
    /\ now = 0
    /\ nextId = Len(sessionMemory) + 1
    /\ log = Report("init", Nothing, 0, FALSE, 0)
    /\ IdleSession
    /\ IdleController
    /\ IdleLLM

NextContext ==
    \E userText \in {TextCache, TextPlain} :
       Compose(userText) /\ UNCHANGED <<llmVars, svcVars, sesVars, ctlVars>>

SpecContext == InitContext /\ [][NextContext]_vars

\* The events of the memory that have a role and a content, oldest first.
Qualifying ==
    SelectSeq(sessionMemory,
              LAMBDA e : e.role # "" /\ e.content \notin
                            {Str("", 0), NonText("null"), NonText("undefined")})

\* The context of the request composed last: what lies between its first
\* and its last message.
Context == SubSeq(log.returned.messages, 2, Len(log.returned.messages) - 1)

\* The qualifying event the i-th context message stands for, if the context
\* is the most recent qualifying events in their order.
ContextSource(i) == Qualifying[Len(Qualifying) - Len(Context) + i]

\* C27: every message sequence composed for a request is one system prompt,
\* then the context, then one final user message; the context has at most
\* 20 messages, and they stand for the most recent qualifying events of the
\* memory, oldest first, whatever the size of the memory.
C27_MessagesAreSystemContextUser ==
    log.op = "messages" =>
       LET msgs == log.returned.messages
       IN /\ Len(msgs) >= 2
          /\ msgs[1] = [role |-> "system", content |-> Plain(SystemPromptText)]
          /\ msgs[Len(msgs)] = [role |-> "user",
                                content |-> Plain(log.returned.userText)]
          /\ Len(Context) = Min(20, Len(Qualifying))
          /\ \A i \in 1..Len(Context) :
                Context[i].content = MessageContent(ContextSource(i))

\* A request composed from a memory of more than 20 qualifying events of
\* two kinds, and events that do not qualify: the context is the last 20.
C27_Witness ==
    /\ log.op = "messages"
    /\ Len(Qualifying) > 20
    /\ Len(sessionMemory) > Len(Qualifying)
    /\ Len(Context) = 20
    /\ Context[1].content # Context[20].content
    /\ Context[1].role # Context[20].role

\* The role the claim gives an event: user to a screen capture, assistant
\* to a model event, system to every other event.
RoleAsClaimed(e) ==
    IF e.action = "ocr_capture" THEN "user"
    ELSE IF e.role = "model" THEN "assistant"
    ELSE "system"

\* C28 as stated: in the context of a request, an ocr_capture event is sent
\* with role user, a model event with role assistant, and every other event
\* with role system.
C28_OthersAreSystem ==
    log.op = "messages" =>
       \A i \in 1..Len(Context) :
          Context[i].role = RoleAsClaimed(ContextSource(i))

\* C28, amended: in the context of a request, a model event is sent with
\* role assistant, a user event and a system event whose action is
\* ocr_capture with role user, and every other event with role system.
C28_RolesOfContext ==
    log.op = "messages" =>
       \A i \in 1..Len(Context) :
          LET e == ContextSource(i)
          IN Context[i].role =
                (CASE e.role = "model" -> "assistant"
                   [] e.role = "user" -> "user"
                   [] e.role = "system" /\ e.action = "ocr_capture" -> "user"
                   [] OTHER -> "system")

\* A context that holds a screen capture sent as user, a model event sent as
\* assistant and a session event sent as system.
C28_Witness ==
    /\ log.op = "messages"
    /\ \E i, j, k \in 1..Len(Context) :
          /\ ContextSource(i).action = "ocr_capture" /\ Context[i].role = "user"
          /\ Context[i].content.screen
          /\ ContextSource(j).role = "model" /\ Context[j].role = "assistant"
          /\ ContextSource(k).action = "session_start" /\ Context[k].role = "system"

-----------------------------------------------------------------------------
(* Layered responses: the three parallel requests of one input             *)

MaxLayered == 1

NextLayered ==
    \/ /\ layers.n < MaxLayered
       /\ \E skill \in {"system-design", "dsa"} : generateLayeredResponse(skill)
       /\ UNCHANGED <<memVars, llmVars, sesVars, pending, whisperCalls, reply, appVars>>
    \/ /\ \E c \in 1..3, outcome \in {"text", "empty", "error"} :
             LayerCreateSettles(c, outcome)
       /\ UNCHANGED <<memVars, llmVars, sesVars, pending, whisperCalls, reply, appVars>>
    \/ /\ \E c \in 1..3 : LayerDelayOver(c)
       /\ UNCHANGED <<memVars, llmVars, sesVars, pending, whisperCalls, reply, appVars>>
    \/ /\ LayersSettle
       /\ UNCHANGED <<memVars, llmVars, sesVars, pending, whisperCalls, reply, appVars>>
    \/ /\ layers.at \in {"idle", "resolved"}
       /\ \E newApiKey \in {"", "gsk"} : updateApiKey(newApiKey, FALSE)
       /\ UNCHANGED <<memVars, llmVars, sesVars, ctlVars>>

SpecLayered == Init /\ [][NextLayered]_vars

\* The text a layer of the call answers with: the backend's, unless the
\* layer fell back to the canned response of the skill.
LayerText(c) ==
    IF layers.layer[c].usedFallback
    THEN generateFallbackResponse("text", layers.skill).response
    ELSE "text"

\* C29: the three parallel requests of generateLayeredResponse are
\* independent: the combined call is never rejected, and it resolves with a
\* hint, an explain and a deepDive text, each the text of its own request,
\* or the canned response when that request was not sent or failed at its
\* last attempt, whichever of the other requests fail and in whatever order
\* the three complete.
C29_LayeredAlwaysResolves ==
    /\ layers.at # "rejected"
    /\ \A c \in 1..3 : layers.layer[c].at # "rejected"
    /\ layers.at = "resolved" =>
          /\ layers.out.hint = LayerText(1)
          /\ layers.out.explain = LayerText(2)
          /\ layers.out.deepDive = LayerText(3)
          /\ \A c \in 1..3 :
                /\ LayerText(c) # "none"
                /\ layers.layer[c].attempt \in
                      (IF layers.layer[c].usedFallback THEN {0, maxRetries}
                       ELSE 1..maxRetries)

\* The call resolved after its first request failed three times, its second
\* answered at the second attempt and its third at once, the third having
\* completed first and the first last.
C29_Witness ==
    /\ layers.at = "resolved"
    /\ layers.settled = <<3, 2, 1>>
    /\ layers.layer[1].usedFallback /\ layers.layer[1].attempt = maxRetries
    /\ ~layers.layer[2].usedFallback /\ layers.layer[2].attempt = 2
    /\ ~layers.layer[3].usedFallback /\ layers.layer[3].attempt = 1
    /\ layers.out.hint # "text"
    /\ layers.out.explain = "text"
    /\ layers.out.deepDive = "text"

\* C30: at most one auto-end deadline is armed at any time, and a deadline
\* armed by an earlier start never ends a session begun by a later start:
\* the timer callback ends a session only maxDurationMinutes after the most
\* recent start.
C30_OnlyLatestDeadlineEnds ==
    /\ [](Cardinality(timers) <= 1)
    /\ [][AutoEnds => now = sessionStartTime + WindowMs]_vars

-----------------------------------------------------------------------------
(* Voice and chat requests that overlap                                     *)

CopilotPromptText == Str("You are a whisper co-pilot", 26)

\* What the backend answers to a question of the model.
AnswerTo(text) ==
    CASE text.tag = TextCache.tag -> Str("Redis fits as a cache here", 26)
      [] OTHER -> Str("Here is more about that", 23)

\* The canned response as the store keeps it.
CannedText(skill) ==
    Str(CASE generateFallbackResponse("text", skill).response[2] = "system-design"
               -> "Consider the scalability implications here"
          [] generateFallbackResponse("text", skill).response[2]
                = "technical-screening"
               -> "Think about the time complexity of your approach"
          [] OTHER -> "Let me think about this problem",
        130)

\* A co-pilot request: the text it was scheduled with, where it stands, the
\* messages composed for the backend and whether they were sent.
CopilotRequest(text) ==
    [text |-> text, at |-> "timeout", messages |-> <<>>, sent |-> FALSE]

\* ipcMain.handle("send-chat-message"): addUserInput, then setTimeout
onSendChatMessage(text) ==
    /\ addUserInput(text, "chat")
    /\ inflight' = Append(inflight, CopilotRequest(text))
    /\ reply' = Reply("send-chat-message", Malformed(text), TRUE, "")
    /\ UNCHANGED <<pending, whisperCalls, layers, controller, capture, svcVars>>

\* speechService.on("transcription") for a text without the trigger phrase
onTranscription(text) ==
    /\ addUserInput(text, "speech")
    /\ inflight' = Append(inflight, CopilotRequest(text))
    /\ UNCHANGED <<pending, whisperCalls, reply, layers, controller, capture,
                   svcVars>>

\* The setTimeout callback of request i, with follow-up mode off:
\* getOptimizedHistory, then processTranscriptionWithLLM up to its await.
\* processTranscriptionWithIntelligentResponse composes the messages from
\* the trimmed text and sessionHistory.recent when the service is
\* initialized.
coPilotTimeout(i) ==
    /\ inflight[i].at = "timeout"
    /\ ~controller.followUpMode
    /\ getOptimizedHistory
    /\ inflight' =
          IF Malformed(inflight[i].text)
          THEN [j \in 1..Len(inflight) - 1 |->
                   IF j < i THEN inflight[j] ELSE inflight[j + 1]]
          ELSE [inflight EXCEPT
                   ![i].at = "awaiting",
                   ![i].sent = ~NotInitialized /\ client # "null",
                   ![i].messages =
                       IF NotInitialized THEN <<>>
                       ELSE buildMessages(CopilotPromptText, inflight[i].text,
                                          log'.returned.recent)]
    /\ UNCHANGED <<pending, whisperCalls, reply, layers, controller, capture,
                   svcVars>>

\* processTranscriptionWithIntelligentResponse returns to request i: the
\* answer of the backend, or the canned response when the request was not
\* sent or has failed; the controller stores it.
coPilotResponse(i, answered) ==
    /\ inflight[i].at = "awaiting"
    /\ answered => inflight[i].sent
    /\ addModelResponse(IF answered THEN AnswerTo(inflight[i].text)
                        ELSE CannedText(controller.activeSkill))
    /\ inflight' = [j \in 1..Len(inflight) - 1 |->
                      IF j < i THEN inflight[j] ELSE inflight[j + 1]]
    /\ requestCount' = IF answered THEN requestCount + 1 ELSE requestCount
    /\ errorCount' = IF ~answered /\ ~NotInitialized
                     THEN errorCount + 1 ELSE errorCount
    /\ UNCHANGED <<pending, whisperCalls, reply, layers, controller, capture,
                   client, isInitialized, backend, request, calls, delays,
                   result>>

\* session.maxMemorySize and session.compressionThreshold
maxMemorySize == 1000
compressionThresholdValue == 500

MaxQuestions == 2

InitOverlap ==
    /\ sessionMemory = initializeWithSkillPrompts(0)
    /\ topicTags = EmptyTopics
    /\ activeSkill = "system-design"
    /\ maxSize = maxMemorySize
    /\ compressionThreshold = compressionThresholdValue
    /\ now = 0
    /\ nextId = Len(AvailableModes) + 1
    /\ log = Report("init", Nothing, 0, FALSE, 0)
    /\ IdleSession
    /\ IdleController
    /\ screenText = {}
    /\ skillArg = "system-design"
    /\ classification = NotClassified
    /\ response = <<>>
    /\ parts = NoParts
    /\ pc = "idle"
    /\ \E apiKey \in {"", "gsk"} :
          /\ client = initializeClient(apiKey, FALSE, "null").client
          /\ isInitialized = initializeClient(apiKey, FALSE, "null").isInitialized
    /\ requestCount = 0
    /\ errorCount = 0
    /\ backend = [m \in Models |-> "ok"]
    /\ request = NoRequest
    /\ calls = <<>>
    /\ delays = <<>>
    /\ result = NoResult

\* The user inputs sent so far.
Asked == Len(SelectSeq(sessionMemory, LAMBDA e : e.role = "user"))

NextOverlap ==
    \/ /\ Asked < MaxQuestions
       /\ \E text \in {TextCache, TextPlain} :
             onSendChatMessage(text) \/ onTranscription(text)
       /\ UNCHANGED <<llmVars, sesVars>>
    \/ /\ \E i \in 1..Len(inflight) : coPilotTimeout(i)
       /\ UNCHANGED <<llmVars, sesVars>>
    \/ /\ \E i \in 1..Len(inflight), answered \in BOOLEAN :
             coPilotResponse(i, answered)
       /\ UNCHANGED <<llmVars, sesVars>>

SpecOverlap == InitOverlap /\ [][NextOverlap]_vars

ModelEvents == SelectSeq(sessionMemory, LAMBDA e : e.role = "model")

TimesSent(i) ==
    Cardinality({j \in 1..Len(inflight[i].messages) :
                    inflight[i].messages[j] =
                       [role |-> "user", content |-> Plain(inflight[i].text)]})

\* The user events of the log that hold the text of request i.
InputsOf(i) ==
    {j \in 1..Len(sessionMemory) :
        sessionMemory[j].role = "user"
        /\ sessionMemory[j].content = inflight[i].text}

\* C37: the messages composed for a voice or chat input hold its text once,
\* as the final user message: when the log holds one input of that text,
\* the context does not hold it as well.
C37_InputSentOnce ==
    \A i \in 1..Len(inflight) :
       (inflight[i].messages # <<>> /\ Cardinality(InputsOf(i)) = 1)
          => /\ inflight[i].messages[Len(inflight[i].messages)] =
                   [role |-> "user", content |-> Plain(inflight[i].text)]
             /\ TimesSent(i) = 1

----------------------------------------------------------------------------
(* The screen capture pipeline: triggerScreenshotOCR, CaptureService,      *)
(* follow-up mode                                                           *)

MaxCaptures == 2

\* A triggerScreenshotOCR call: inside captureAndProcess ("capturing") or at
\* the await of the language model ("awaiting")
NewJob == [at |-> "capturing", followUp |-> FALSE]

Without(seq, i) ==
    [j \in 1..Len(seq) - 1 |-> IF j < i THEN seq[j] ELSE seq[j + 1]]

\* Mutant: captureAndProcess without its first line.
BeginUnguarded(cap) ==
    [cap EXCEPT !.isProcessing = TRUE, !.jobs = Append(@, NewJob),
                !.n = @ + 1, !.error = "none"]

\* captureAndProcess up to its await:
\* if (this.isProcessing) throw new Error('Capture already in progress');
\* this.isProcessing = true; the throw is caught by triggerScreenshotOCR,
\* which broadcasts it as an ocr-error.
Begin(cap) ==
    IF cap.isProcessing
    THEN [cap EXCEPT !.n = @ + 1, !.error = "Capture already in progress"]
    ELSE [cap EXCEPT !.isProcessing = TRUE, !.jobs = Append(@, NewJob),
                     !.n = @ + 1, !.error = "none"]

\* The hot key, the IPC handler or the auto-capture interval calls
\* triggerScreenshotOCR, which runs up to the await inside captureAndProcess.
triggerScreenshotOCR ==
    /\ capture' = Begin(capture)
    /\ UNCHANGED <<memVars, nextId, log, svcVars, sesVars, pending,
                   whisperCalls, reply, layers, controller, inflight>>

\* The capture of job i failed, or its image is empty: finally resets the
\* flag and triggerScreenshotOCR broadcasts an ocr-error.
captureFails(i, error) ==
    /\ capture.jobs[i].at = "capturing"
    /\ capture' = [capture EXCEPT !.isProcessing = FALSE,
                                  !.jobs = Without(@, i), !.error = error]
    /\ UNCHANGED <<memVars, nextId, log, svcVars, sesVars, pending,
                   whisperCalls, reply, layers, controller, inflight>>

\* The capture of job i returns an image: finally resets the flag; with
\* follow-up off sessionManager.sessionMemory = []; getOptimizedHistory;
\* processScreenCaptureWithStructuredResponse up to its first await. The
\* image comes once the language model is done with the job before it.
captureSucceeds(i) ==
    /\ capture.jobs[i].at = "capturing"
    /\ \A j \in 1..Len(capture.jobs) : capture.jobs[j].at # "awaiting"
    /\ capture' = [capture EXCEPT
                      !.isProcessing = FALSE,
                      !.jobs[i] = [at |-> "awaiting",
                                   followUp |-> controller.followUpMode]]
    /\ getOptimizedHistoryOf(IF controller.followUpMode THEN sessionMemory
                             ELSE <<>>, DefaultLimit)
    /\ processScreenCaptureWithStructuredResponse(controller.activeSkill)
    /\ UNCHANGED <<sesVars, pending, whisperCalls, reply, layers, controller,
                   inflight>>

\* llmResult.extractedText || '' as the store takes it
ExtractedText(res) ==
    CASE res.extractedText = "extracted" -> TextPlain
      [] res.extractedText = "Image analysis failed"
           -> Str("Image analysis failed", 21)
      [] res.extractedText = "Image analysis requested"
           -> Str("Image analysis requested", 24)
      [] OTHER -> TextEmpty

\* llmResult.response || ''
ResultResponse(res) ==
    IF res.usedFallback THEN CannedText(request.skill) ELSE TextAnswer

\* if (extractedText) sessionManager.addOCREvent(extractedText, ...)
SavesOcrEvent(res) == res.extractedText # ""

\* The store after addOCREvent(text)
WithOcrEvent(mem, tt, id, text) ==
    AppendTo(mem, tt, id, "system", [SafeText(text) EXCEPT !.pre = TRUE],
             "ocr_capture", activeSkill)

\* The language model returns to job i: the OCR event is saved first, when
\* there is an extracted text, then the model response.
captureDelivered(i) ==
    /\ capture.jobs[i].at = "awaiting"
    /\ request.at = "done"
    /\ LET ocr == IF SavesOcrEvent(result)
                  THEN WithOcrEvent(sessionMemory, topicTags, nextId,
                                    ExtractedText(result))
                  ELSE [mem |-> sessionMemory, tt |-> topicTags]
           first == IF SavesOcrEvent(result) THEN nextId + 1 ELSE nextId
           r == AppendTo(ocr.mem, ocr.tt, first, "model",
                         ResultResponse(result), "model_response",
                         activeSkill)
       IN /\ sessionMemory' = r.mem
          /\ topicTags' = r.tt
          /\ nextId' = first + 1
          /\ log' = r.report
    /\ capture' = [capture EXCEPT !.jobs = Without(@, i)]
    /\ UNCHANGED <<activeSkill, maxSize, compressionThreshold, now, svcVars,
                   sesVars, pending, whisperCalls, reply, layers, controller,
                   inflight>>

\* ipcMain.handle("toggle-follow-up"):
\* this.followUpMode = !this.followUpMode;
\* if (!this.followUpMode) sessionManager.clear()
toggleFollowUp ==
    /\ controller' = [controller EXCEPT !.followUpMode = ~@]
    /\ IF controller.followUpMode
       THEN clear
       ELSE UNCHANGED <<memVars, nextId, log, sesVars>>
    /\ UNCHANGED <<svcVars, pending, whisperCalls, reply, layers, inflight,
                   capture>>

\* startInterviewSession(mode): the controller's fields, startSession and
\* the setInterval of the timer broadcasts
startInterviewSession(mode) ==
    /\ controller' = [controller EXCEPT !.interviewMode = mode,
                                         !.activeSkill = mode,
                                         !.sessionActive = TRUE,
                                         !.timerInterval = nextTimer,
                                         !.intervals = @ \cup {nextTimer}]
    /\ startSession(mode)
    /\ UNCHANGED <<maxSize, compressionThreshold, now, svcVars, pending,
                   whisperCalls, reply, layers, inflight, capture>>

\* The backends of the capture runs: all answer, the vision models fail, or
\* the text model fails.
CaptureBackends ==
    {[m \in Models |-> "ok"],
     [m \in Models |-> IF m = model THEN "ok" ELSE "alwaysFail"],
     [m \in Models |-> IF m = model THEN "alwaysFail" ELSE "ok"]}

InitCapture ==
    /\ sessionMemory = initializeWithSkillPrompts(0)
    /\ topicTags = EmptyTopics
    /\ activeSkill = "system-design"
    /\ maxSize = maxMemorySize
    /\ compressionThreshold = compressionThresholdValue
    /\ now = 0
    /\ nextId = Len(AvailableModes) + 1
    /\ log = Report("init", Nothing, 0, FALSE, 0)
    /\ IdleSession
    /\ IdleController
    /\ screenText = {}
    /\ skillArg = "system-design"
    /\ classification = NotClassified
    /\ response = <<>>
    /\ parts = NoParts
    /\ pc = "idle"
    /\ \E apiKey \in {"", "gsk"} :
          /\ client = initializeClient(apiKey, FALSE, "null").client
          /\ isInitialized = initializeClient(apiKey, FALSE, "null").isInitialized
    /\ requestCount = 0
    /\ errorCount = 0
    /\ backend \in CaptureBackends
    /\ request = NoRequest
    /\ calls = <<>>
    /\ delays = <<>>
    /\ result = NoResult

NextCapture ==
    \/ capture.n < MaxCaptures /\ triggerScreenshotOCR /\ UNCHANGED llmVars
    \/ /\ \E i \in 1..Len(capture.jobs),
             error \in {"Failed to capture screenshot", "capture failed"} :
             captureFails(i, error)
       /\ UNCHANGED llmVars
    \/ /\ \E i \in 1..Len(capture.jobs) : captureSucceeds(i)
       /\ UNCHANGED llmVars
    \/ VisionCall /\ UNCHANGED <<memVars, llmVars, sesVars, ctlVars>>
    \/ Attempt /\ UNCHANGED <<memVars, llmVars, sesVars, ctlVars>>
    \/ Backoff /\ UNCHANGED <<memVars, llmVars, sesVars, ctlVars>>
    \/ /\ \E i \in 1..Len(capture.jobs) : captureDelivered(i)
       /\ UNCHANGED llmVars
    \/ toggleFollowUp /\ UNCHANGED llmVars
    \/ /\ nextTimer = 1
       /\ \E mode \in {"dsa"} : startInterviewSession(mode)
       /\ UNCHANGED llmVars

SpecCapture == InitCapture /\ [][NextCapture]_vars

\* The toggle-follow-up handler has set followUpMode to false.
TurnsFollowUpOff == controller.followUpMode /\ ~controller'.followUpMode

\* A capture taken with follow-up off reaches the language model.
CapturesWithFollowUpOff ==
    /\ ~controller.followUpMode
    /\ \E i \in 1..Len(capture.jobs) :
          /\ capture.jobs[i].at = "capturing"
          /\ Len(capture'.jobs) = Len(capture.jobs)
          /\ capture'.jobs[i].at = "awaiting"

\* The session is as it was: active, with its start time and its deadline.
SessionKept ==
    /\ sessionActive'
    /\ sessionStartTime' = sessionStartTime
    /\ sessionTimer' = sessionTimer
    /\ \E tm \in timers' : tm.id = sessionTimer'

\* C32: turning follow-up mode off keeps the session alive: after the
\* toggle-follow-up handler sets followUpMode to false, and after a capture
\* taken with follow-up off, a session that was active is still active, its
\* start time is unchanged and its auto-end deadline is still armed.
C32_FollowUpOffKeepsSession ==
    [][(sessionActive /\ (TurnsFollowUpOff \/ CapturesWithFollowUpOff))
          => SessionKept]_vars

\* The capture half of C32, which the code keeps.
CaptureKeepsSession ==
    [][(sessionActive /\ CapturesWithFollowUpOff)
          => (SessionKept /\ sessionMemory' = <<>>)]_vars

CaptureKeptSession ==
    /\ sessionActive
    /\ \E i \in 1..Len(capture.jobs) :
          capture.jobs[i].at = "awaiting" /\ ~capture.jobs[i].followUp

OcrEvents == SelectSeq(sessionMemory, LAMBDA e : e.action = "ocr_capture")

Placeholders == {"Image analysis failed", "Image analysis requested"}

\* C33: an ocr_capture event is appended only when text was extracted from
\* the screenshot by a backend model: the placeholder of the canned
\* fallback is never recorded as an ocr_capture event, and no follow-up
\* question is built from it.
C33_OcrEventOnlyFromModel ==
    /\ \A i \in 1..Len(OcrEvents) : OcrEvents[i].content.tag \notin Placeholders
    /\ \A i \in 1..Len(FollowUpPairs(sessionMemory)) :
          FollowUpPairs(sessionMemory)[i].question.tag \notin Placeholders

\* The captures inside captureAndProcess.
Capturing ==
    Cardinality({i \in 1..Len(capture.jobs) : capture.jobs[i].at = "capturing"})

\* C39: at most one screen capture is in progress at any time, the
\* in-progress flag is set exactly while one is, so that it is false after
\* every capture, and captureAndProcess called while a capture is running
\* fails with an error and starts nothing.
C39_OneCaptureAtATime ==
    /\ [](Capturing <= 1 /\ (capture.isProcessing <=> Capturing = 1))
    /\ [][(capture.isProcessing /\ capture'.n = capture.n + 1)
             => /\ capture'.error = "Capture already in progress"
                /\ capture'.jobs = capture.jobs
                /\ capture'.isProcessing]_vars

\* A capture was turned away while another one was running.
C39_Witness ==
    /\ capture.error = "Capture already in progress"
    /\ Capturing = 1
    /\ capture.n = MaxCaptures

----------------------------------------------------------------------------
(* The controller's session and mode handlers                               *)

\* endInterviewSession: clearInterval, this.sessionActive = false,
\* sessionManager.endSession()
endInterviewSession ==
    /\ controller' = [controller EXCEPT
                         !.intervals = @ \ {controller.timerInterval},
                         !.timerInterval = 0,
                         !.sessionActive = FALSE]
    /\ endSession
    /\ UNCHANGED <<svcVars, pending, whisperCalls, reply, layers, inflight,
                   capture>>

\* getSessionTimer().remaining <= 0: the whole seconds that have passed
\* since the start make up the window; without a start time the whole
\* window remains.
NoneRemaining ==
    /\ sessionStartTime # NoTime
    /\ (now - sessionStartTime) \div 1000 >= maxDurationMinutes * 60

\* The callback of an interval of startInterviewSession that finds no time
\* remaining: this.endInterviewSession()
timerIntervalEnds ==
    /\ controller.intervals # {}
    /\ NoneRemaining
    /\ endInterviewSession

\* ipcMain.handle("clear-session-memory")
clearSessionMemory ==
    /\ clear
    /\ reply' = Reply("clear-session-memory", FALSE, TRUE, "")
    /\ UNCHANGED <<svcVars, pending, whisperCalls, layers, appVars>>

InitController ==
    /\ sessionMemory = initializeWithSkillPrompts(0)
    /\ topicTags = EmptyTopics
    /\ activeSkill = "system-design"
    /\ maxSize = maxMemorySize
    /\ compressionThreshold = compressionThresholdValue
    /\ now = 0
    /\ nextId = Len(AvailableModes) + 1
    /\ log = Report("init", Nothing, 0, FALSE, 0)
    /\ IdleSession
    /\ IdleController
    /\ IdleLLM

NextController ==
    \/ /\ nextTimer <= MaxStarts
       /\ \E mode \in {"dsa", "technical-screening"} :
             startInterviewSession(mode)
       /\ UNCHANGED llmVars
    \/ endInterviewSession /\ UNCHANGED llmVars
    \/ timerIntervalEnds /\ UNCHANGED llmVars
    \/ clearSessionMemory /\ UNCHANGED llmVars
    \/ toggleFollowUp /\ UNCHANGED llmVars
    \/ TimerFires /\ UNCHANGED <<llmVars, svcVars, ctlVars>>
    \/ SessionTick /\ UNCHANGED <<llmVars, svcVars, ctlVars>>

SpecController == InitController /\ [][NextController]_vars

\* C36: after every IPC handler or timer callback has run to completion,
\* the controller's sessionActive flag equals the session manager's, for
\* every sequence of start-session, end-session, clear-session-memory,
\* toggle-follow-up and auto-end timer events.
C36_SessionFlagsAgree == controller.sessionActive = sessionActive

\* The handlers of the controller's own session life cycle keep the flags
\* equal.
OwnLifecycleAgrees ==
    [][(controller'.sessionActive # controller.sessionActive)
          => controller'.sessionActive = sessionActive']_vars

\* set-interview-mode, update-active-skill, save-settings with an
\* activeSkill, and navigateSkill end alike:
\* this.activeSkill = skill; this.interviewMode = skill;
\* sessionManager.setActiveSkill(skill)
SelectSkill(skill) ==
    /\ controller' = [controller EXCEPT !.interviewMode = skill,
                                         !.activeSkill = skill]
    /\ setActiveSkill(skill)
    /\ UNCHANGED <<maxSize, compressionThreshold, now, svcVars, sesVars,
                   pending, whisperCalls, reply, layers, inflight, capture>>

\* ipcMain.handle("set-interview-mode")
setInterviewMode(mode) == SelectSkill(mode)

\* ipcMain.handle("update-active-skill")
updateActiveSkill(skill) == SelectSkill(skill)

\* saveSettings(settings) with settings.activeSkill
saveSettings(skill) == SelectSkill(skill)

\* ipcMain.on("update-skill"): the controller's fields only
updateSkill(skill) ==
    /\ controller' = [controller EXCEPT !.interviewMode = skill,
                                         !.activeSkill = skill]
    /\ UNCHANGED <<memVars, svcVars, sesVars, pending, whisperCalls, reply,
                   layers, inflight, capture>>

\* availableModes.indexOf(skill), from 1; 0 when it is not there
IndexOfMode(skill) ==
    IF \E i \in 1..Len(AvailableModes) : AvailableModes[i] = skill
    THEN CHOOSE i \in 1..Len(AvailableModes) : AvailableModes[i] = skill
    ELSE 0

\* The index after currentIndex in the given direction, wrapping around
NewIndex(currentIndex, direction) ==
    IF currentIndex + direction > Len(AvailableModes) THEN 1
    ELSE IF currentIndex + direction < 1 THEN Len(AvailableModes)
    ELSE currentIndex + direction

\* navigateSkill(direction), from the arrow keys
navigateSkill(direction) ==
    /\ IndexOfMode(controller.activeSkill) # 0
    /\ SelectSkill(AvailableModes[NewIndex(IndexOfMode(controller.activeSkill),
                                           direction)])

MaxModeChanges == 2

NextModes ==
    \/ /\ Appended < MaxModeChanges
       /\ \E mode \in {"dsa", "technical-screening"} :
             \/ setInterviewMode(mode)
             \/ updateActiveSkill(mode)
             \/ saveSettings(mode)
       /\ UNCHANGED llmVars
    \/ /\ Appended < MaxModeChanges
       /\ \E direction \in {-1, 1} : navigateSkill(direction)
       /\ UNCHANGED llmVars
    \/ /\ \E skill \in {"dsa", "technical-screening"} : updateSkill(skill)
       /\ UNCHANGED llmVars
    \/ /\ nextTimer <= 1
       /\ \E mode \in {"dsa"} : startInterviewSession(mode)
       /\ UNCHANGED llmVars
    \/ /\ Asked < MaxChats
       /\ onSendChatMessage(TextPlain)
       /\ UNCHANGED <<llmVars, sesVars>>
    \/ /\ \E i \in 1..Len(inflight) : coPilotTimeout(i)
       /\ UNCHANGED <<llmVars, sesVars>>
    \/ /\ \E i \in 1..Len(inflight) : coPilotResponse(i, FALSE)
       /\ UNCHANGED <<llmVars, sesVars>>

SpecModes == InitController /\ [][NextModes]_vars

\* C38: in every reachable state the controller's activeSkill equals its
\* interviewMode and the session manager's activeSkill, so every appended
\* event's metadata.skill is the mode the user last selected.
C38_SkillsAgree ==
    /\ [](/\ controller.activeSkill = controller.interviewMode
          /\ controller.activeSkill = activeSkill)
    /\ [][nextId' = nextId + 1
             => sessionMemory'[Len(sessionMemory')].meta.skill
                   = controller'.activeSkill]_vars

\* The part of C38 that the code keeps.
SkillEqualsMode == controller.activeSkill = controller.interviewMode

----------------------------------------------------------------------------
(* consolidateSimilarEvents, pass after pass                                *)

MaxTail == 4

\* What follows the skill prompts in the log: mode changes, chat inputs and
\* model responses, a millisecond apart.
TailKinds == {"skill_change", "chat_input", "model_response"}

TailEvent(kind, id) ==
    NewEvent(id, id,
             CASE kind = "skill_change" -> "system"
               [] kind = "chat_input" -> "user"
               [] OTHER -> "model",
             CASE kind = "skill_change"
                    -> Str(<<"Interview mode switched from ", "dsa", "dsa">>, 60)
               [] kind = "chat_input" -> TextPlain
               [] OTHER -> TextAnswer,
             kind, "system-design")

Tails == UNION {[1..n -> TailKinds] : n \in 0..MaxTail}

InitConsolidate ==
    /\ \E tail \in Tails :
          /\ sessionMemory =
                initializeWithSkillPrompts(0)
                \o [i \in 1..Len(tail) |->
                       TailEvent(tail[i], Len(AvailableModes) + i)]
          /\ nextId = Len(AvailableModes) + Len(tail) + 1
          /\ now = Len(AvailableModes) + Len(tail)
    /\ topicTags = EmptyTopics
    /\ activeSkill = "system-design"
    /\ maxSize = maxMemorySize
    /\ compressionThreshold = compressionThresholdValue
    /\ log = Report("init", Nothing, 0, FALSE, 0)
    /\ IdleSession
    /\ IdleController
    /\ IdleLLM

\* performMaintenance(): nothing of these logs has expired and they are
\* within maxSize, so that what it does is its consolidateSimilarEvents()
maintenancePass ==
    /\ sessionMemory' = performMaintenance(sessionMemory, maxSize, now).mem
    /\ log' = Report("maintenance", Nothing, 0, TRUE,
                     performMaintenance(sessionMemory, maxSize, now).removed)
    /\ UNCHANGED <<topicTags, activeSkill, maxSize, compressionThreshold, now,
                   nextId>>

NextConsolidate ==
    maintenancePass /\ UNCHANGED <<llmVars, svcVars, sesVars, ctlVars>>

SpecConsolidate == InitConsolidate /\ [][NextConsolidate]_vars

\* Events i and j of mem are system events with the same action.
Alike(mem, i, j) ==
    /\ mem[i].category = "system"
    /\ mem[j].category = "system"
    /\ mem[i].action = mem[j].action

\* The maximal runs of adjacent system events with the same action, each as
\* its first and its last index.
Runs(mem) ==
    {r \in (1..Len(mem)) \X (1..Len(mem)) :
        /\ r[1] <= r[2]
        /\ \A i \in r[1]..r[2] : Alike(mem, r[1], i)
        /\ (r[1] = 1 \/ ~Alike(mem, r[1] - 1, r[1]))
        /\ (r[2] = Len(mem) \/ ~Alike(mem, r[2], r[2] + 1))}

\* How many events of out come from the run r of mem.
LeftOfRun(mem, out, r) ==
    Cardinality({j \in 1..Len(out) :
                    \E i \in r[1]..r[2] : out[j].id = mem[i].id})

\* The first events of the disjoint pairs of run r, from the left.
FirstsOfPairs(r) == {i \in r[1]..r[2] : (i - r[1]) % 2 = 0 /\ i + 1 <= r[2]}

\* The pair that starts at event i of mem is one merged event of out, with
\* the id and the timestamp of event i.
MergedIn(mem, out, i) ==
    /\ \E j \in 1..Len(out) :
          /\ out[j].id = mem[i].id
          /\ out[j].timestamp = mem[i].timestamp
          /\ out[j].meta.consolidated
    /\ \A j \in 1..Len(out) : out[j].id # mem[i + 1].id

NotSystem(e) == e.category # "system"

\* One pass, as the claim has it, from mem to out
OnePass(mem, out) ==
    /\ \A r \in Runs(mem) :
          /\ LeftOfRun(mem, out, r) = (r[2] - r[1] + 2) \div 2
          /\ \A i \in FirstsOfPairs(r) : MergedIn(mem, out, i)
    /\ SelectSeq(out, NotSystem) = SelectSeq(mem, NotSystem)

\* C34: one consolidate() pass merges disjoint adjacent pairs from left to
\* right: a maximal run of k adjacent system events with the same action
\* leaves ceil(k/2) events, each merged event keeps the id and timestamp of
\* the first of its pair, and the events of other categories are left as
\* they are, in the same order.
C34_PassMergesDisjointPairs ==
    [][OnePass(sessionMemory, sessionMemory')]_vars

\* The three skill prompts have left two events, the merged first pair and
\* the third, and a run of four mode changes has left two merged events.
C34_Witness ==
    /\ log.op = "maintenance"
    /\ Len(sessionMemory) = 4
    /\ sessionMemory[1].id = 1 /\ sessionMemory[1].meta.consolidated
    /\ sessionMemory[2].id = 3 /\ ~sessionMemory[2].meta.consolidated
    /\ sessionMemory[3].id = 4 /\ sessionMemory[3].content.x2 = 1
    /\ sessionMemory[4].id = 6 /\ sessionMemory[4].content.x2 = 1

\* The events of the first log that event i stands for: those from its id
\* up to the id of the next event.
StandsFor(i) ==
    (IF i < Len(sessionMemory) THEN sessionMemory[i + 1].id ELSE nextId)
    - sessionMemory[i].id

\* C35: a merged event's content carries one occurrence-count suffix, " (x2)",
\* and its number is the number of original events the merged event stands
\* for, also after several successive maintenance passes.
C35_SuffixCountsOriginals ==
    \A i \in 1..Len(sessionMemory) :
        sessionMemory[i].meta.consolidated
           => /\ sessionMemory[i].content.x2 = 1
              /\ StandsFor(i) = 2

\* After the first pass a merged event has one suffix and stands for two.
FirstPassCounts ==
    [][log.op = "init" => C35_SuffixCountsOriginals']_vars

====
